---- MODULE Spec2Model ----
(***************************************************************************)
(* Model of the video-editing backend in src/main.js: the edit handlers    *)
(* (cut, add-overlay, slow-motion, add-subtitles, remove-segment, export), *)
(* the child processes they spawn, and the filesystem they share.          *)
(*                                                                         *)
(* Representation.                                                         *)
(*  - A JavaScript string is a sequence of tokens.  Time strings and       *)
(*    prompts are sequences of single characters; file names are sequences *)
(*    of words, where the separators "..", "/", "\\", " " are tokens of    *)
(*    their own, so String.includes(sep) is membership of the token.       *)
(*  - A JavaScript number is an integer count of half seconds (a probed    *)
(*    duration need not be a whole number of seconds), or NaN.  A speed is *)
(*    an integer count of hundredths.                                      *)
(*  - An event-loop callback runs to completion: one action is one         *)
(*    callback, from its start to the next await / event registration.     *)
(***************************************************************************)
EXTENDS Integers, Sequences, FiniteSets, TLC

\* ------------------------------------------------------------------------
\* Bounds of the model
\* ------------------------------------------------------------------------

\* Number of edit requests that may be in flight over one run.
MaxReqs == 2

Reqs == 1..MaxReqs

\* ------------------------------------------------------------------------
\* JavaScript values
\* ------------------------------------------------------------------------

\* The number NaN (parseFloat of a non-number, Number of a non-numeric
\* string, arithmetic on undefined).
NaN == 0 - 1000000

\* n whole seconds, in half seconds.
Secs(n) == IF n = NaN THEN NaN ELSE 2 * n

\* Math.floor of a number of seconds held in half seconds, in whole seconds.
Floor(x) == x \div 2

\* a + b, a - b, a * b in JavaScript: NaN is contagious.
Plus(a, b) == IF a = NaN \/ b = NaN THEN NaN ELSE a + b

Minus(a, b) == IF a = NaN \/ b = NaN THEN NaN ELSE a - b

Times(a, b) == IF a = NaN \/ b = NaN THEN NaN ELSE a * b

\* a < b, a <= b, a > b, a >= b in JavaScript: false when either side is NaN.
Lt(a, b) == a # NaN /\ b # NaN /\ a < b

Le(a, b) == a # NaN /\ b # NaN /\ a <= b

Gt(a, b) == a # NaN /\ b # NaN /\ a > b

\* a >= b taken for a > b.
GeStrict(a, b) == a # NaN /\ b # NaN /\ a > b

Ge(a, b) == a # NaN /\ b # NaN /\ a >= b

\* Math.max(0, x).
Max0(x) == IF x = NaN THEN NaN ELSE IF x > 0 THEN x ELSE 0

Digits == <<"0", "1", "2", "3", "4", "5", "6", "7", "8", "9">>

IsDigit(c) == \E i \in 1..10 : Digits[i] = c

DigitVal(c) == (CHOOSE i \in 1..10 : Digits[i] = c) - 1

RECURSIVE DigitsVal(_)
\* Value of a non-empty sequence of digit characters.
DigitsVal(s) ==
  IF Len(s) = 0 THEN 0
  ELSE 10 * DigitsVal(SubSeq(s, 1, Len(s) - 1)) + DigitVal(s[Len(s)])

AllDigits(s) == \A i \in 1..Len(s) : IsDigit(s[i])

\* Number(str) for the strings of the model (digits, letters, ':' and '-'):
\* the empty string is 0, an optionally signed run of digits its value,
\* anything else NaN.
Number(s) ==
  IF Len(s) = 0 THEN 0
  ELSE IF AllDigits(s) THEN DigitsVal(s)
  ELSE IF s[1] = "-" /\ Len(s) > 1 /\ AllDigits(Tail(s)) THEN 0 - DigitsVal(Tail(s))
  ELSE NaN

RECURSIVE NatToStr(_)
\* Number.prototype.toString of a non-negative integer, as characters.
NatToStr(n) ==
  IF n < 10 THEN <<Digits[n + 1]>>
  ELSE NatToStr(n \div 10) \o <<Digits[(n % 10) + 1]>>

\* String.prototype.padStart(2, '0').
PadStart2(s) == IF Len(s) < 2 THEN <<"0">> \o s ELSE s

RECURSIVE Split(_, _)
\* String.prototype.split(sep) for a one-character separator.
Split(s, sep) ==
  IF \A i \in 1..Len(s) : s[i] # sep THEN <<s>>
  ELSE LET k == CHOOSE i \in 1..Len(s) :
                  s[i] = sep /\ \A j \in 1..(i - 1) : s[j] # sep
       IN <<SubSeq(s, 1, k - 1)>> \o Split(SubSeq(s, k + 1, Len(s)), sep)

\* String.prototype.startsWith.
StartsWith(s, p) == Len(s) >= Len(p) /\ SubSeq(s, 1, Len(p)) = p

\* !field for a string field of a request body: '' (also standing for an
\* absent field) is falsy.
MissingStr(v) == v = <<>>

\* !field for a number field of a request body: 0 (also standing for an
\* absent field) is falsy; NaN stands for a non-numeric, non-empty string.
MissingNum(v) == v = 0

StrNaN == <<"N", "a", "N">>

StrStart == <<"s", "t", "a", "r", "t">>

StrBeginning == <<"b", "e", "g", "i", "n", "n", "i", "n", "g">>

StrEnd == <<"e", "n", "d">>

StrEndMinus == <<"e", "n", "d", "-">>

StrZero == <<"0", "0", ":", "0", "0", ":", "0", "0">>

\* ------------------------------------------------------------------------
\* Time conversion utilities
\* ------------------------------------------------------------------------

\* timeToSeconds: split on ':' and map Number; a missing part is undefined
\* and makes the sum NaN.  The result is in half seconds.
timeToSeconds(time) ==
  LET parts == Split(time, ":")
      part(i) == IF i <= Len(parts) THEN Number(parts[i]) ELSE NaN
  IN Secs(Plus(Plus(Times(part(1), 3600), Times(part(2), 60)), part(3)))

\* secondsToTime: floor each field and pad it to two digits; NaN prints as
\* "NaN" in every field.  The argument is in half seconds and not negative.
secondsToTime(seconds) ==
  IF seconds = NaN THEN StrNaN \o <<":">> \o StrNaN \o <<":">> \o StrNaN
  ELSE LET whole == Floor(seconds)
           h == PadStart2(NatToStr(whole \div 3600))
           m == PadStart2(NatToStr((whole % 3600) \div 60))
           s == PadStart2(NatToStr(whole % 60))
       IN h \o <<":">> \o m \o <<":">> \o s

\* resolveRelativeTime with an offset beyond the duration resolved to the
\* end of the video.
resolveRelativeTimeFloorAtEnd(timeStr, videoDuration) ==
  IF timeStr = StrStart \/ timeStr = StrBeginning THEN StrZero
  ELSE IF timeStr = StrEnd THEN secondsToTime(videoDuration)
  ELSE IF StartsWith(timeStr, StrEndMinus)
    THEN LET subtractStr     == SubSeq(timeStr, 5, Len(timeStr))
             subtractSeconds == timeToSeconds(subtractStr)
             adjustedSeconds == Minus(videoDuration, subtractSeconds)
             safeSeconds     == IF Ge(adjustedSeconds, 0) THEN adjustedSeconds
                                ELSE videoDuration
         IN secondsToTime(safeSeconds)
  ELSE timeStr

\* resolveRelativeTime.
resolveRelativeTime(timeStr, videoDuration) ==
  IF timeStr = StrStart \/ timeStr = StrBeginning THEN StrZero
  ELSE IF timeStr = StrEnd THEN secondsToTime(videoDuration)
  ELSE IF StartsWith(timeStr, StrEndMinus)
    THEN LET subtractStr     == SubSeq(timeStr, 5, Len(timeStr))
             subtractSeconds == timeToSeconds(subtractStr)
             adjustedSeconds == Minus(videoDuration, subtractSeconds)
             safeSeconds     == IF Ge(adjustedSeconds, 0) THEN adjustedSeconds ELSE 0
         IN secondsToTime(safeSeconds)
  ELSE timeStr

\* /^([0-1]?\d|2[0-3]):([0-5]\d):([0-5]\d)$/ (timeFormatRegex of cut-video,
\* timeRegex of remove-segment).
TimeRegexTest(s) ==
  LET parts == Split(s, ":")
      hh == parts[1]
      two(p) == Len(p) = 2 /\ p[1] \in {"0", "1", "2", "3", "4", "5"} /\ IsDigit(p[2])
  IN /\ Len(parts) = 3
     /\ \/ Len(hh) = 1 /\ IsDigit(hh[1])
        \/ Len(hh) = 2 /\ hh[1] \in {"0", "1"} /\ IsDigit(hh[2])
        \/ Len(hh) = 2 /\ hh[1] = "2" /\ hh[2] \in {"0", "1", "2", "3"}
     /\ two(parts[2])
     /\ two(parts[3])

\* /^end-(\d{2}):(\d{2}):(\d{2})$/ (endExpr of remove-segment).
EndExprTest(s) ==
  /\ StartsWith(s, StrEndMinus)
  /\ LET parts == Split(SubSeq(s, 5, Len(s)), ":")
     IN /\ Len(parts) = 3
        /\ \A i \in 1..3 : Len(parts[i]) = 2 /\ AllDigits(parts[i])

\* The offset (+hh)*3600 + (+mm)*60 + (+ss) of a string matching endExpr, in
\* half seconds.
EndExprOffset(s) ==
  LET parts == Split(SubSeq(s, 5, Len(s)), ":")
  IN Secs(DigitsVal(parts[1]) * 3600 + DigitsVal(parts[2]) * 60 + DigitsVal(parts[3]))

\* ------------------------------------------------------------------------
\* File names, paths and the filesystem
\* ------------------------------------------------------------------------

\* The directories of the "Safe Paths Setup" and the downloads directory.
uploadDir == "videos"

cutsDir == "cuts"

audioDir == "audio"

subtitlesDir == "subtitles"

downloadDir == "downloads"

NoPath == <<"none", <<>>>>

\* String.prototype.includes(tok) for a separator token.
Includes(name, tok) == \E i \in 1..Len(name) : name[i] = tok

\* filename.includes('..') || filename.includes('/') || filename.includes('\\').
Unsafe(filename) ==
  Includes(filename, "..") \/ Includes(filename, "/") \/ Includes(filename, "\\")

\* path.extname: the last token of the name when it is an extension.
ExtName(filename) ==
  IF Len(filename) > 0
       /\ filename[Len(filename)] \in {".mp4", ".mov", ".avi", ".mkv", ".webm"}
    THEN <<filename[Len(filename)]>>
    ELSE <<>>

\* path.join(dir, filename) for dir one of the uploads/<dir> directories:
\* "../<other>/<rest>" climbs out of dir into its sibling.
Join(dir, filename) ==
  IF Len(filename) >= 4 /\ filename[1] = ".." /\ filename[2] = "/" /\ filename[4] = "/"
    THEN <<filename[3], SubSeq(filename, 5, Len(filename))>>
    ELSE <<dir, filename>>

\* The files present before any request: an uploaded video of 10.5 s and a
\* previously produced artifact of 4 s.  A file is [by, full, dur]: the
\* request that wrote it (0: none), whether it was written to the end, and
\* its duration in half seconds.
InitFiles ==
  (<<uploadDir, <<"v1", ".mp4">>>> :> [by |-> 0, full |-> TRUE, dur |-> 21])
  @@ (<<cutsDir, <<"c1", ".mp4">>>> :> [by |-> 0, full |-> TRUE, dur |-> 8])

\* fs.existsSync.
Exists(fs, p) == p \in DOMAIN fs

\* fs.unlinkSync / fs.unlink of existing files.
Unlink(fs, ps) == [p \in (DOMAIN fs) \ ps |-> fs[p]]

\* A complete write of path p by request r.
WriteFile(fs, p, r, d) ==
  [q \in (DOMAIN fs) \cup {p} |->
     IF q = p THEN [by |-> r, full |-> TRUE, dur |-> d] ELSE fs[q]]

\* What a process that stopped early leaves at p.
WritePartial(fs, p, r) ==
  [q \in (DOMAIN fs) \cup {p} |->
     IF q = p THEN [by |-> r, full |-> FALSE, dur |-> NaN] ELSE fs[q]]

\* getVideoPath: the first of uploadDir, cutsDir that holds the name, or
\* NoPath (null).
getVideoPath(fs, filename) ==
  IF Exists(fs, Join(uploadDir, filename)) THEN Join(uploadDir, filename)
  ELSE IF Exists(fs, Join(cutsDir, filename)) THEN Join(cutsDir, filename)
  ELSE NoPath

\* `${Date.now()}-${Math.round(Math.random() * 1e6)}` and its siblings: a
\* timestamp followed by a random suffix.  The suffix is taken to differ
\* between any two requests, which makes the pair differ whatever the
\* timestamps are: the pair drawn by request r is written "uid", r.
Uid(r) == <<"uid", ToString(r)>>

\* `${prefix}${uid}${ext}`.
GenName(prefix, r, ext) == <<prefix>> \o Uid(r) \o ext

\* ------------------------------------------------------------------------
\* State
\* ------------------------------------------------------------------------

VARIABLES
  up,     \* the server process is running (FALSE after an uncaught exception)
  now,    \* the last value read from Date.now()
  fsys,   \* the filesystem: path -> file
  body,   \* body[r]: the body of request r, once it has arrived
  pc,     \* pc[r]: "idle", the await the handler of r is suspended at, "done"
  loc,    \* loc[r]: the handler's local variables
  resp,   \* resp[r]: the res.json calls made for r, in order
  procs,  \* the child processes and pending asynchronous file operations
  hist    \* hist[r]: history of r (processes spawned, faults met, how the
          \* duration probe ended)

vars == <<up, now, fsys, body, pc, loc, resp, procs, hist>>

\* A request body.  Fields a handler does not read are empty.
Body(op, filename, start, end, speed, prompt, newName, targetFormat) ==
  [op |-> op, filename |-> filename, start |-> start, end |-> end,
   speed |-> speed, prompt |-> prompt, newName |-> newName,
   targetFormat |-> targetFormat]

NoBody == Body("none", <<>>, <<>>, <<>>, 0, <<>>, <<>>, "")

\* res.status(status).json({success, message, url}).  made records whether
\* the final artifact of the request is on disk, complete, at that moment.
Reply(status, message, url, made) ==
  [status |-> status, success |-> (status = 200), message |-> message,
   url |-> url, made |-> made]

\* Whether request r has written path p to its end.
Made(fs, p, r) == Exists(fs, p) /\ fs[p].full /\ fs[p].by = r

\* res.status(500).json({success: false, message, error: err.message}).
ReplyError(message, made, error) ==
  [status |-> 500, success |-> FALSE, message |-> message, url |-> NoPath,
   made |-> made, error |-> error]

\* The effect e of a callback in which an Error with this message was
\* thrown or a promise rejected with it: an answer that carries err.message
\* carries this one.
Thrown(message, e) ==
  IF e.reply # <<>> /\ "error" \in DOMAIN e.reply[1]
    THEN [e EXCEPT !.reply = <<[e.reply[1] EXCEPT !.error = message]>>]
    ELSE e

\* A child process of request r.  ok: its arguments are well-formed and its
\* input files were there, complete, when it opened them; out / outDur: the
\* file it writes and that file's duration; y: it may overwrite out (-y);
\* timed: a timer that kills it is armed; st: "running", "spawnerr" (the
\* spawn failed), "errored" ('error' was delivered, 'close' is to come) or
\* "killed" (the timer killed it, 'close' is to come).
Proc(r, tag, via, fs, ins, argsOk, out, outDur, y, timed, st) ==
  [req |-> r, tag |-> tag, via |-> via,
   ok |-> (argsOk /\ \A p \in ins : Exists(fs, p) /\ fs[p].full),
   out |-> out, outDur |-> outDur, y |-> y, timed |-> timed, st |-> st]

\* An ffprobe of path: outDur carries the duration it reads (NaN when it
\* cannot), and no timer is armed.
Probe(r, via, fs, path, st) ==
  Proc(r, "probe", via, fs, {path}, TRUE, NoPath,
       IF Exists(fs, path) THEN fs[path].dur ELSE NaN, FALSE, FALSE, st)

\* The outcomes of child_process.spawn: the process runs, or the spawn
\* fails; 'error' is then emitted from process.nextTick, that is before the
\* event loop runs any other callback, and 'close' some time later.
SpawnSts == {"running", "spawnerr"}

\* What one callback of request r does to the state.  fs: the filesystem
\* it leaves; add / del: processes started and processes gone; pc, loc: where
\* the handler is suspended next; reply: its res.json calls; tags: the
\* processes it spawned; fault: a fault of the environment was met; failed:
\* a pipeline stage failed; crash: it threw out of the callback; now: the
\* clock as last read; probe: "ok" or "failed" when the callback is the one
\* the duration probe ends in, "none" otherwise.
Base(r) ==
  [fs |-> fsys, add |-> {}, del |-> {}, pc |-> pc[r], loc |-> loc[r],
   reply |-> <<>>, tags |-> <<>>, fault |-> FALSE, failed |-> FALSE,
   crash |-> FALSE, now |-> now, probe |-> "none"]

\* The state after the callback with effect e has run.  A second res.json
\* for the same request throws ERR_HTTP_HEADERS_SENT out of the callback; an
\* exception thrown out of an event callback ends the server process.
Commit(r, e) ==
  /\ fsys' = e.fs
  /\ procs' = (procs \ e.del) \cup e.add
  /\ pc' = [pc EXCEPT ![r] = e.pc]
  /\ loc' = [loc EXCEPT ![r] = e.loc]
  /\ resp' = [resp EXCEPT ![r] = @ \o e.reply]
  /\ hist' = [hist EXCEPT ![r] = [spawned |-> @.spawned \o e.tags,
                                  fault   |-> @.fault \/ e.fault,
                                  failed  |-> @.failed \/ e.failed,
                                  probe   |-> IF e.probe = "none" THEN @.probe
                                              ELSE e.probe]]
  /\ up' = (~e.crash /\ Len(resp[r]) + Len(e.reply) <= 1)
  /\ now' = e.now

\* A handler that answers and returns.
Done(r, status, message) ==
  [Base(r) EXCEPT !.pc = "done", !.reply = <<Reply(status, message, NoPath, FALSE)>>]

\* The effect e of the callback the duration probe ends in: the probe gave
\* the duration (good) or failed.
ProbeEnded(good, e) == [e EXCEPT !.probe = IF good THEN "ok" ELSE "failed"]

\* Date.now(): the clock has or has not advanced since it was last read.
Clock == {now, now + 1}

\* ------------------------------------------------------------------------
\* POST /api/slow-motion
\* ------------------------------------------------------------------------

\* normalizeTime of the slow-motion handler.
normalizeTime(t, fullDur) ==
  IF t = StrStart THEN StrZero
  ELSE IF t = StrEnd THEN secondsToTime(fullDur)
  ELSE IF StartsWith(t, StrEndMinus)
    THEN LET subtract == timeToSeconds(SubSeq(t, 5, Len(t)))
         IN secondsToTime(Max0(Minus(fullDur, subtract)))
  ELSE t

\* isNaN(sp) || sp <= 0 || sp > 5, for sp = parseFloat(speed) in hundredths.
SpeedInvalid(sp) == sp = NaN \/ sp <= 0 \/ sp > 500

\* The handler up to its first await: the input checks, the lookup of the
\* file and the spawn of the duration probe.
SlowMotionEntry(r, b) ==
  IF MissingStr(b.filename) \/ MissingStr(b.start) \/ MissingStr(b.end)
       \/ MissingNum(b.speed)
    THEN Done(r, 400, "Missing filename, start, end or speed.")
  ELSE LET inputPath == getVideoPath(fsys, b.filename) IN
    IF inputPath = NoPath THEN Done(r, 404, "Video not found.")
    ELSE [Base(r) EXCEPT
            !.pc = "slow.probe",
            !.loc = [inputPath |-> inputPath],
            !.add = {Probe(r, "exec", fsys, inputPath, "running")},
            !.tags = <<"probe">>]

\* The commands of steps 5 and 6: head (unless start is 'start'), slowed
\* middle, tail (unless end is 'end'), each with the path it writes and the
\* duration of what it writes.
SlowCmds(r, b, fullDur, sSec, eSec, sp) ==
  LET ext == ExtName(b.filename)
      wellFormed == sSec # NaN /\ eSec # NaN
      origLen == Minus(eSec, sSec)
      slowLen == IF origLen = NaN THEN NaN ELSE (origLen * 100) \div sp
      partA == IF b.start = StrStart THEN <<>>
               ELSE <<[tag |-> "head", path |-> <<cutsDir, GenName("pre-", r, ext)>>,
                       dur |-> sSec, argsOk |-> wellFormed]>>
      partB == <<[tag |-> "middle", path |-> <<cutsDir, GenName("slow-", r, ext)>>,
                  dur |-> slowLen, argsOk |-> wellFormed]>>
      partC == IF b.end = StrEnd THEN <<>>
               ELSE <<[tag |-> "tail", path |-> <<cutsDir, GenName("post-", r, ext)>>,
                       dur |-> Minus(fullDur, eSec), argsOk |-> wellFormed]>>
  IN partA \o partB \o partC

\* runFFmpeg(args, TIMEOUT_MS) for stage i of the commands: a process with
\* a kill timer armed.
SlowStage(r, fs, l, i, st) ==
  Proc(r, l.cmds[i].tag, "runFFmpeg", fs, {l.inputPath}, l.cmds[i].argsOk,
       l.cmds[i].path, l.cmds[i].dur, FALSE, TRUE, st)

\* The handler after the probe: steps 3 to 6 and the first runFFmpeg.
\* err: the probe failed; st: how the spawn goes.
SlowMotionProbed(r, b, p, err, st) ==
  IF err THEN [Done(r, 500, "Could not probe duration.") EXCEPT !.del = {p}, !.fault = p.ok]
  ELSE
    LET fullDur == p.outDur
        sHH == normalizeTime(b.start, fullDur)
        eHH == normalizeTime(b.end, fullDur)
        sSec == timeToSeconds(sHH)
        eSec == timeToSeconds(eHH)
        sp == b.speed
        times == [inputPath |-> loc[r].inputPath,
                  fullDur |-> fullDur, sHH |-> sHH, eHH |-> eHH]
    IN IF Ge(sSec, eSec) \/ Gt(eSec, fullDur)
         THEN [Done(r, 400, "Invalid time range.") EXCEPT !.del = {p}, !.loc = times]
       ELSE IF SpeedInvalid(sp)
         THEN [Done(r, 400, "Speed must be between 0.1 and 5.")
                 EXCEPT !.del = {p}, !.loc = times]
       ELSE
         LET ext == ExtName(b.filename)
             cmds == SlowCmds(r, b, fullDur, sSec, eSec, sp)
             l == [inputPath |-> loc[r].inputPath,
                   fullDur |-> fullDur, sHH |-> sHH, eHH |-> eHH,
                   cmds |-> cmds,
                   idx |-> 1,
                   listTxt |-> <<cutsDir, GenName("list-", r, <<".txt">>)>>,
                   out |-> <<cutsDir, GenName("slowmo-", r, ext)>>]
         IN [Base(r) EXCEPT
               !.pc = "slow.stage", !.loc = l, !.del = {p},
               !.add = {SlowStage(r, fsys, l, 1, st)},
               !.tags = <<cmds[1].tag>>]

RECURSIVE SumDur(_)
\* The duration of the concatenation of the commands' outputs.
SumDur(cmds) ==
  IF Len(cmds) = 0 THEN 0 ELSE Plus(cmds[1].dur, SumDur(Tail(cmds)))

\* The lines of the concat manifest, cmds.map(i => `file '${i.path}'`): one
\* path per command, in the order of the commands.
ConcatList(cmds) == [i \in 1..Len(cmds) |-> cmds[i].path]

\* The handler after stage idx resolved: the next stage, or the concat
\* manifest and the concatenation.  fs: the filesystem the stage left.
SlowMotionStaged(r, fs, st) ==
  LET l == loc[r] IN
  IF l.idx < Len(l.cmds)
    THEN [Base(r) EXCEPT
            !.fs = fs, !.loc = [l EXCEPT !.idx = l.idx + 1],
            !.add = {SlowStage(r, fs, l, l.idx + 1, st)},
            !.tags = <<l.cmds[l.idx + 1].tag>>]
    ELSE LET concatList == ConcatList(l.cmds)
             fs1 == WriteFile(fs, l.listTxt, r, 0)
             listed == {concatList[i] : i \in 1..Len(concatList)}
         IN [Base(r) EXCEPT
               !.fs = fs1, !.pc = "slow.concat",
               !.loc = l @@ [concatList |-> concatList],
               !.add = {Proc(r, "concat", "runFFmpeg", fs1, {l.listTxt} \cup listed,
                             TRUE, l.out, SumDur(l.cmds), FALSE, TRUE, st)},
               !.tags = <<"concat">>]

\* The handler after the concatenation resolved: the cleanup, which also
\* unlinks the input, and the answer.  fs.unlinkSync throws when the file is
\* gone, and the catch block answers.
SlowMotionConcatenated(r, fs) ==
  LET l == loc[r]
      parts == {l.cmds[i].path : i \in 1..Len(l.cmds)}
      fs1 == Unlink(fs, parts \cup {l.listTxt})
  IN IF ~Exists(fs1, l.inputPath)
       THEN [Base(r) EXCEPT
               !.fs = fs1, !.pc = "done",
               !.reply = <<Reply(500, "Processing failed.", NoPath, Made(fs1, l.out, r))>>]
       ELSE [Base(r) EXCEPT
               !.fs = Unlink(fs1, {l.inputPath}), !.pc = "done",
               !.reply = <<Reply(200, "", l.out, Made(fs1, l.out, r))>>]

\* The catch block of the handler, entered from the callback with effect e.
SlowMotionCatch(r, e) ==
  [e EXCEPT
     !.pc = "done",
     !.reply = <<Reply(500, "Processing failed.", NoPath, Made(e.fs, e.loc.out, r))>>]

\* ------------------------------------------------------------------------
\* POST /api/add-subtitles
\* ------------------------------------------------------------------------

\* The handler up to its first await: the input checks, the lookup of the
\* file, the generated paths and the runFFmpeg that extracts the audio.
AddSubtitlesEntry(r, b, st) ==
  IF MissingStr(b.filename) \/ Unsafe(b.filename) THEN Done(r, 400, "Invalid filename")
  ELSE LET inputFilePath == getVideoPath(fsys, b.filename) IN
    IF inputFilePath = NoPath \/ ~Exists(fsys, inputFilePath)
      THEN Done(r, 404, "Video file not found.")
    ELSE
      LET l == [inputPath |-> inputFilePath,
                audio |-> <<audioDir, Uid(r) \o <<".mp3">>>>,
                srt |-> <<subtitlesDir, GenName("subtitles-", r, <<".srt">>)>>,
                out |-> <<cutsDir, GenName("subtitled-", r, ExtName(b.filename))>>]
      IN [Base(r) EXCEPT
            !.pc = "sub.audio", !.loc = l,
            !.add = {Proc(r, "audio", "runFFmpeg", fsys, {inputFilePath}, TRUE,
                          l.audio, fsys[inputFilePath].dur, FALSE, TRUE, st)},
            !.tags = <<"audio">>]

\* Step 2: the audio file is handed to the transcription service.
AddSubtitlesExtracted(r, fs) ==
  [Base(r) EXCEPT
     !.fs = fs, !.pc = "sub.transcribe",
     !.add = {Proc(r, "transcribe", "openai", fs, {loc[r].audio}, TRUE,
                   NoPath, 0, FALSE, FALSE, "running")}]

\* Step 3: the subtitle track is written and runFFmpeg burns it in.
AddSubtitlesTranscribed(r, p, st) ==
  LET l == loc[r]
      fs1 == WriteFile(fsys, l.srt, r, 0)
  IN [Base(r) EXCEPT
        !.fs = fs1, !.pc = "sub.burn", !.del = {p},
        !.add = {Proc(r, "burn", "runFFmpeg", fs1, {l.inputPath, l.srt}, TRUE,
                      l.out,
                      IF Exists(fs1, l.inputPath) THEN fs1[l.inputPath].dur ELSE NaN,
                      FALSE, TRUE, st)},
        !.tags = <<"burn">>]

\* The answer after the burn resolved, with the cleanup of the audio file
\* left out.
AddSubtitlesBurnedAudioKept(r, fs) ==
  LET l == loc[r]
      fs1 == Unlink(fs, {l.srt})
  IN IF ~Exists(fs1, l.inputPath)
       THEN [Base(r) EXCEPT
               !.fs = fs1, !.pc = "done",
               !.reply = <<ReplyError("Subtitle generation failed.", Made(fs1, l.out, r),
                                      "ENOENT: no such file or directory, unlink")>>]
       ELSE [Base(r) EXCEPT
               !.fs = Unlink(fs1, {l.inputPath}), !.pc = "done",
               !.reply = <<Reply(200, "Subtitles added and burned into video.",
                                 l.out, Made(fs1, l.out, r))>>]

\* The cleanup after the burn resolved, which also unlinks the input, and
\* the answer; fs.unlinkSync throws when the file is gone.
AddSubtitlesBurned(r, fs) ==
  LET l == loc[r]
      fs1 == Unlink(fs, {l.audio, l.srt})
  IN IF ~Exists(fs1, l.inputPath)
       THEN [Base(r) EXCEPT
               !.fs = fs1, !.pc = "done",
               !.reply = <<ReplyError("Subtitle generation failed.", Made(fs1, l.out, r),
                                      "ENOENT: no such file or directory, unlink")>>]
       ELSE [Base(r) EXCEPT
               !.fs = Unlink(fs1, {l.inputPath}), !.pc = "done",
               !.reply = <<Reply(200, "Subtitles added and burned into video.",
                                 l.out, Made(fs1, l.out, r))>>]

\* The catch block of the handler, entered from the callback with effect e;
\* the error's message is filled in by Thrown.  failedAt keeps the await the
\* handler had reached when it was entered.
AddSubtitlesCatch(r, e) ==
  [e EXCEPT
     !.pc = "done",
     !.loc = [inputPath |-> e.loc.inputPath, audio |-> e.loc.audio,
              srt |-> e.loc.srt, out |-> e.loc.out, failedAt |-> e.pc],
     !.reply = <<ReplyError("Subtitle generation failed.", Made(e.fs, e.loc.out, r), "")>>]

\* ------------------------------------------------------------------------
\* POST /api/remove-segment
\* ------------------------------------------------------------------------

\* The handler up to its first await: the input checks, the lookup of the
\* file and the spawn of getDuration's ffprobe, which carries no timer.
RemoveSegmentEntry(r, b, st) ==
  IF MissingStr(b.filename) \/ MissingStr(b.start) \/ MissingStr(b.end)
    THEN Done(r, 400, "Missing required fields: filename, start, and end.")
  ELSE IF Unsafe(b.filename) THEN Done(r, 400, "Invalid filename.")
  ELSE LET inputFilePath == getVideoPath(fsys, b.filename) IN
    IF inputFilePath = NoPath \/ ~Exists(fsys, inputFilePath)
      THEN Done(r, 404, "Video file not found.")
    ELSE [Base(r) EXCEPT
            !.pc = "rm.probe",
            !.loc = [inputPath |-> inputFilePath, out |-> NoPath],
            !.add = {Probe(r, "getDuration", fsys, inputFilePath, st)},
            !.tags = <<"probe">>]

\* A relative expression matching endExpr resolved against the duration;
\* any other string unchanged.
RemoveResolve(t, durationSec) ==
  IF EndExprTest(t)
    THEN secondsToTime(Max0(Minus(durationSec, EndExprOffset(t))))
    ELSE t

\* Step 4 and 5: keepA when the start is after 0, keepB when the end is not
\* the end of the video, with the paths they write.  ffmpeg refuses a -to
\* before its -ss and a time that is not a time.
RemoveCmds(r, b, parsedStart, parsedEnd, endOfVideo) ==
  LET ext == ExtName(b.filename)
      startSec == timeToSeconds(parsedStart)
      endSec == timeToSeconds(parsedEnd)
      endOfVideoSec == timeToSeconds(endOfVideo)
      partA == IF startSec > 0
                 THEN <<[tag |-> "head", path |-> <<cutsDir, GenName("keepA-", r, ext)>>,
                         dur |-> startSec, argsOk |-> TRUE]>>
                 ELSE <<>>
      partB == IF parsedEnd # endOfVideo
                 THEN <<[tag |-> "tail", path |-> <<cutsDir, GenName("keepB-", r, ext)>>,
                         dur |-> Minus(endOfVideoSec, endSec),
                         argsOk |-> Le(endSec, endOfVideoSec)]>>
                 ELSE <<>>
  IN partA \o partB

\* runFFmpeg(['-y', ...], TIMEOUT_MS) for part i.
RemoveStage(r, fs, l, i, st) ==
  Proc(r, l.cmds[i].tag, "runFFmpeg", fs, {l.inputPath}, l.cmds[i].argsOk,
       l.cmds[i].path, l.cmds[i].dur, TRUE, TRUE, st)

\* The handler after getDuration resolved with durationSec: steps 2 to 5
\* up to the first runFFmpeg, or the answer when nothing is left to keep.
RemoveSegmentProbed(r, b, p, durationSec, st) ==
  LET endOfVideo == secondsToTime(durationSec)
      parsedStart0 == IF b.start = StrStart \/ b.start = StrBeginning
                        THEN StrZero ELSE b.start
      parsedEnd0 == IF b.end = StrEnd THEN endOfVideo ELSE b.end
      parsedStart == RemoveResolve(parsedStart0, durationSec)
      parsedEnd == RemoveResolve(parsedEnd0, durationSec)
      times == [inputPath |-> loc[r].inputPath, durationSec |-> durationSec,
                parsedStart |-> parsedStart, parsedEnd |-> parsedEnd]
  IN IF ~TimeRegexTest(parsedStart) \/ ~TimeRegexTest(parsedEnd)
       THEN [Done(r, 400, "Invalid time format. Use HH:MM:SS or end-relative format.")
               EXCEPT !.del = {p}, !.loc = times]
     ELSE IF timeToSeconds(parsedEnd) <= timeToSeconds(parsedStart)
       THEN [Done(r, 400, "End time must be after start time.")
               EXCEPT !.del = {p}, !.loc = times]
     ELSE
       LET cmds == RemoveCmds(r, b, parsedStart, parsedEnd, endOfVideo)
           l == [inputPath |-> loc[r].inputPath,
                 durationSec |-> durationSec,
                 parsedStart |-> parsedStart, parsedEnd |-> parsedEnd,
                 cmds |-> cmds,
                 idx |-> 1,
                 listTxt |-> <<cutsDir, GenName("list-", r, <<".txt">>)>>,
                 out |-> <<cutsDir, GenName("removed-", r, ExtName(b.filename))>>]
       IN IF Len(cmds) = 0
            THEN [Done(r, 400, "Nothing left to keep. Aborting.")
                    EXCEPT !.del = {p}, !.loc = l]
            ELSE [Base(r) EXCEPT
                    !.pc = "rm.stage", !.loc = l, !.del = {p},
                    !.add = {RemoveStage(r, fsys, l, 1, st)},
                    !.tags = <<cmds[1].tag>>]

\* The handler after a part resolved: the next part, or the concat manifest
\* and the concatenation.
RemoveSegmentStaged(r, fs, st) ==
  LET l == loc[r] IN
  IF l.idx < Len(l.cmds)
    THEN [Base(r) EXCEPT
            !.fs = fs, !.loc = [l EXCEPT !.idx = l.idx + 1],
            !.add = {RemoveStage(r, fs, l, l.idx + 1, st)},
            !.tags = <<l.cmds[l.idx + 1].tag>>]
    ELSE LET concatList == ConcatList(l.cmds)
             fs1 == WriteFile(fs, l.listTxt, r, 0)
             listed == {concatList[i] : i \in 1..Len(concatList)}
         IN [Base(r) EXCEPT
               !.fs = fs1, !.pc = "rm.concat",
               !.loc = l @@ [concatList |-> concatList],
               !.add = {Proc(r, "concat", "runFFmpeg", fs1, {l.listTxt} \cup listed,
                             TRUE, l.out, SumDur(l.cmds), TRUE, TRUE, st)},
               !.tags = <<"concat">>]

\* Step 8: the parts, the manifest and the input are unlinked, each if it
\* exists, and the handler answers.
RemoveSegmentConcatenated(r, fs) ==
  LET l == loc[r]
      parts == {l.cmds[i].path : i \in 1..Len(l.cmds)}
      fs1 == Unlink(fs, parts \cup {l.listTxt, l.inputPath})
  IN [Base(r) EXCEPT
        !.fs = fs1, !.pc = "done",
        !.reply = <<Reply(200, "Segment removed successfully.", l.out,
                          Made(fs1, l.out, r))>>]

\* The catch block of the handler, entered from the callback with effect e.
RemoveSegmentCatch(r, e) ==
  [e EXCEPT
     !.pc = "done",
     !.reply = <<Reply(500, "Internal error during segment removal.", NoPath,
                       Made(e.fs, e.loc.out, r))>>]

\* ------------------------------------------------------------------------
\* Prompt parsing for overlays.  A prompt is a sequence of characters.
\* ------------------------------------------------------------------------

LowerCase ==
  <<"a", "b", "c", "d", "e", "f", "g", "h", "i", "j", "k", "l", "m",
    "n", "o", "p", "q", "r", "s", "t", "u", "v", "w", "x", "y", "z">>

UpperCase ==
  <<"A", "B", "C", "D", "E", "F", "G", "H", "I", "J", "K", "L", "M",
    "N", "O", "P", "Q", "R", "S", "T", "U", "V", "W", "X", "Y", "Z">>

\* String.prototype.toLowerCase, one character; also the /i flag.
Lower(c) ==
  IF \E i \in 1..26 : UpperCase[i] = c
    THEN LowerCase[CHOOSE i \in 1..26 : UpperCase[i] = c]
    ELSE c

LowerStr(s) == [i \in 1..Len(s) |-> Lower(s[i])]

IsLetter(c) == \E i \in 1..26 : LowerCase[i] = Lower(c)

\* \w.
IsWordChar(c) == IsLetter(c) \/ IsDigit(c) \/ c = "_"

\* [a-zA-Z0-9!?,.' ].
IsTextChar(c) == IsLetter(c) \/ IsDigit(c) \/ c \in {"!", "?", ",", ".", "'", " "}

IsQuote(c) == c \in {"'", "\""}

\* The literal w occurs in s at position i.
At(s, i, w) == i >= 1 /\ i + Len(w) - 1 <= Len(s) /\ SubSeq(s, i, i + Len(w) - 1) = w

\* /^w/.test(s): the literal is looked for at the start of s alone.
HasAtStart(s, w) == At(s, 1, w)

\* /w/.test(s).
Has(s, w) == \E i \in 1..Len(s) : At(s, i, w)

\* The least member of a non-empty set of positions.
Least(S) == CHOOSE i \in S : \A j \in S : i <= j

\* The end of the longest run of characters satisfying Cls that starts at
\* position i (i - 1 when there is none).
RunEnd(s, i, Cls(_)) ==
  IF i > Len(s) \/ ~Cls(s[i]) THEN i - 1
  ELSE Least({j \in i..Len(s) : j = Len(s) \/ ~Cls(s[j + 1])})

IsSpace(c) == c = " "

\* The keywords of the size regex, in the order of its alternatives, and
\* fontSizeMap.
SizeWords ==
  <<<<"e", "x", "t", "r", "a", " ", "l", "a", "r", "g", "e">>, <<"h", "u", "g", "e">>, <<"b", "i", "g">>, <<"l", "a", "r", "g", "e">>, <<"m", "e", "d", "i", "u", "m">>, <<"s", "m", "a", "l", "l">>>>

fontSizeMap == <<80, 60, 48, 48, 36, 24>>

\* The anchors of the position regex, in the order of its alternatives.
PosWords ==
  <<<<"t", "o", "p", "-", "l", "e", "f", "t">>, <<"t", "o", "p", "-", "r", "i", "g", "h", "t">>, <<"t", "o", "p", "-", "c", "e", "n", "t", "e", "r">>,
    <<"b", "o", "t", "t", "o", "m", "-", "l", "e", "f", "t">>, <<"b", "o", "t", "t", "o", "m", "-", "r", "i", "g", "h", "t">>, <<"b", "o", "t", "t", "o", "m", "-", "c", "e", "n", "t", "e", "r">>,
    <<"c", "e", "n", "t", "e", "r">>>>

PosNames ==
  <<"top-left", "top-right", "top-center", "bottom-left", "bottom-right",
    "bottom-center", "center">>

knownColors ==
  <<<<"r", "e", "d">>, <<"b", "l", "u", "e">>, <<"g", "r", "e", "e", "n">>, <<"w", "h", "i", "t", "e">>, <<"b", "l", "a", "c", "k">>,
    <<"y", "e", "l", "l", "o", "w">>, <<"p", "u", "r", "p", "l", "e">>, <<"o", "r", "a", "n", "g", "e">>, <<"p", "i", "n", "k">>, <<"g", "r", "a", "y">>>>

ColorNames ==
  <<"red", "blue", "green", "white", "black", "yellow", "purple", "orange",
    "pink", "gray">>

\* String.prototype.match of an alternation of literals: the index in
\* words of the alternative matched (0: no match), which is the first
\* alternative that matches at the leftmost position where any does.
MatchAlt(s, words) ==
  LET hits == {i \in 1..Len(s) : \E k \in 1..Len(words) : At(s, i, words[k])}
  IN IF hits = {} THEN 0
     ELSE Least({k \in 1..Len(words) : At(s, Least(hits), words[k])})

\* The sentinel start time "END".
END == 0 - 2000000

\* /['"](.+?)['"]/: the text between the first quote that has a quote at
\* least two characters later and the nearest such quote; <<>> when no match.
QuoteMatch(s) ==
  LET opens == {i \in 1..Len(s) : IsQuote(s[i]) /\ \E j \in (i + 2)..Len(s) : IsQuote(s[j])}
  IN IF opens = {} THEN <<>>
     ELSE LET i == Least(opens)
              j == Least({k \in (i + 2)..Len(s) : IsQuote(s[k])})
          IN SubSeq(s, i + 1, j - 1)

\* /(?:add|put)\s+([a-zA-Z0-9!?,.' ]+)/i at position i of s (lower-cased
\* in ls): the group captured, or <<>> when there is no match at i.  The
\* greedy \s+ gives one blank back to the group when nothing else follows.
RawTextAt(s, ls, i) ==
  IF ~(At(ls, i, <<"a", "d", "d">>) \/ At(ls, i, <<"p", "u", "t">>)) THEN <<>>
  ELSE LET b == RunEnd(s, i + 3, IsSpace)
           e == RunEnd(s, b + 1, IsTextChar)
       IN IF b < i + 3 THEN <<>>
          ELSE IF e >= b + 1 THEN SubSeq(s, b + 1, e)
          ELSE IF b >= i + 4 THEN <<" ">>
          ELSE <<>>

RawTextMatch(s) ==
  LET ls == LowerStr(s)
      hits == {i \in 1..Len(s) : RawTextAt(s, ls, i) # <<>>}
  IN IF hits = {} THEN <<>> ELSE RawTextAt(s, ls, Least(hits))

\* /(?:at|minute)\s*(\d{1,2}):?(\d{2})?/i at position i: <<minutes, seconds>>
\* as parsed by parseInt(..) || 0, or <<>> when there is no match at i.
TimeAt(s, ls, i) ==
  LET k == IF At(ls, i, <<"a", "t">>) THEN i + 2
           ELSE IF At(ls, i, <<"m", "i", "n", "u", "t", "e">>) THEN i + 6 ELSE 0
  IN IF k = 0 THEN <<>>
     ELSE LET d == RunEnd(s, k, IsSpace) + 1
              isD(j) == j <= Len(s) /\ IsDigit(s[j])
              d1End == IF isD(d + 1) THEN d + 1 ELSE d
              c == IF d1End + 1 <= Len(s) /\ s[d1End + 1] = ":" THEN d1End + 1 ELSE d1End
          IN IF ~isD(d) THEN <<>>
             ELSE <<DigitsVal(SubSeq(s, d, d1End)),
                    IF isD(c + 1) /\ isD(c + 2) THEN DigitsVal(SubSeq(s, c + 1, c + 2)) ELSE 0>>

TimeMatch(s) ==
  LET ls == LowerStr(s)
      hits == {i \in 1..Len(s) : TimeAt(s, ls, i) # <<>>}
  IN IF hits = {} THEN <<>> ELSE TimeAt(s, ls, Least(hits))

\* /for (\d+) seconds/: the number, or NaN when there is no match.
DurationMatch(s) ==
  LET hits == {i \in 1..Len(s) :
                 /\ At(s, i, <<"f", "o", "r", " ">>)
                 /\ RunEnd(s, i + 4, IsDigit) >= i + 4
                 /\ At(s, RunEnd(s, i + 4, IsDigit) + 1, <<" ", "s", "e", "c", "o", "n", "d", "s">>)}
  IN IF hits = {} THEN NaN
     ELSE LET i == Least(hits) IN DigitsVal(SubSeq(s, i + 4, RunEnd(s, i + 4, IsDigit)))

\* /in (\w+)/i read from the last match instead of the first.
ColorMatchLast(s) ==
  LET ls == LowerStr(s)
      hits == {i \in 1..Len(s) : At(ls, i, <<"i", "n", " ">>) /\ RunEnd(s, i + 3, IsWordChar) >= i + 3}
  IN IF hits = {} THEN <<>>
     ELSE LET i == CHOOSE h \in hits : \A j \in hits : j <= h
          IN SubSeq(ls, i + 3, RunEnd(s, i + 3, IsWordChar))

\* /in (\w+)/i: the word captured, lower-cased, or <<>> when no match.
ColorMatch(s) ==
  LET ls == LowerStr(s)
      hits == {i \in 1..Len(s) : At(ls, i, <<"i", "n", " ">>) /\ RunEnd(s, i + 3, IsWordChar) >= i + 3}
  IN IF hits = {} THEN <<>>
     ELSE LET i == Least(hits) IN SubSeq(ls, i + 3, RunEnd(s, i + 3, IsWordChar))

\* parseOverlayPrompt with "left" tested after "right".
parseOverlayPromptLeftLast(prompt) ==
  LET lp == LowerStr(prompt)
      fontSizeMatch == MatchAlt(lp, SizeWords)
      quoteMatch == QuoteMatch(prompt)
      rawTextMatch == RawTextMatch(prompt)
      timeMatch == TimeMatch(prompt)
      endMatch == Has(lp, <<"a", "t", " ", "t", "h", "e", " ", "e", "n", "d">>) \/ Has(lp, <<"a", "t", " ", "e", "n", "d", " ", "o", "f", " ", "t", "h", "e", " ", "v", "i", "d", "e", "o">>)
      startMatch == Has(lp, <<"a", "t", " ", "t", "h", "e", " ", "s", "t", "a", "r", "t">>) \/ Has(lp, <<"a", "t", " ", "s", "t", "a", "r", "t", " ", "o", "f", " ", "t", "h", "e", " ", "v", "i", "d", "e", "o">>)
      durationMatch == DurationMatch(prompt)
      colorMatch == ColorMatch(prompt)
      posMatch == MatchAlt(lp, PosWords)
      pos0 == "center"
      pos1 == IF Has(lp, <<"t", "o", "p">>) THEN "top-center" ELSE pos0
      pos2 == IF Has(lp, <<"b", "o", "t", "t", "o", "m">>) THEN "bottom-center" ELSE pos1
      pos3 == IF Has(lp, <<"r", "i", "g", "h", "t">>) THEN "top-right" ELSE pos2
      pos4 == IF Has(lp, <<"l", "e", "f", "t">>) THEN "top-left" ELSE pos3
  IN [text |-> IF quoteMatch # <<>> THEN quoteMatch
               ELSE IF rawTextMatch # <<>> THEN rawTextMatch
               ELSE <<"T", "e", "x", "t">>,
      start_time |-> IF timeMatch # <<>> THEN timeMatch[1] * 60 + timeMatch[2]
                     ELSE IF endMatch THEN END
                     ELSE 0,
      duration |-> IF durationMatch # NaN THEN durationMatch ELSE 3,
      color |-> IF \E k \in 1..Len(knownColors) : knownColors[k] = colorMatch
                  THEN ColorNames[CHOOSE k \in 1..Len(knownColors) : knownColors[k] = colorMatch]
                  ELSE "white",
      position |-> IF posMatch # 0 THEN PosNames[posMatch] ELSE pos4,
      bold |-> Has(lp, <<"b", "o", "l", "d">>),
      fontsize |-> IF fontSizeMatch # 0 THEN fontSizeMap[fontSizeMatch] ELSE 64]

\* parseOverlayPrompt.
parseOverlayPrompt(prompt) ==
  LET lp == LowerStr(prompt)
      fontSizeMatch == MatchAlt(lp, SizeWords)
      quoteMatch == QuoteMatch(prompt)
      rawTextMatch == RawTextMatch(prompt)
      timeMatch == TimeMatch(prompt)
      endMatch == Has(lp, <<"a", "t", " ", "t", "h", "e", " ", "e", "n", "d">>) \/ Has(lp, <<"a", "t", " ", "e", "n", "d", " ", "o", "f", " ", "t", "h", "e", " ", "v", "i", "d", "e", "o">>)
      startMatch == Has(lp, <<"a", "t", " ", "t", "h", "e", " ", "s", "t", "a", "r", "t">>) \/ Has(lp, <<"a", "t", " ", "s", "t", "a", "r", "t", " ", "o", "f", " ", "t", "h", "e", " ", "v", "i", "d", "e", "o">>)
      durationMatch == DurationMatch(prompt)
      colorMatch == ColorMatch(prompt)
      posMatch == MatchAlt(lp, PosWords)
      pos0 == "center"
      pos1 == IF Has(lp, <<"t", "o", "p">>) THEN "top-center" ELSE pos0
      pos2 == IF Has(lp, <<"b", "o", "t", "t", "o", "m">>) THEN "bottom-center" ELSE pos1
      pos3 == IF Has(lp, <<"l", "e", "f", "t">>) THEN "top-left" ELSE pos2
      pos4 == IF Has(lp, <<"r", "i", "g", "h", "t">>) THEN "top-right" ELSE pos3
  IN [text |-> IF quoteMatch # <<>> THEN quoteMatch
               ELSE IF rawTextMatch # <<>> THEN rawTextMatch
               ELSE <<"T", "e", "x", "t">>,
      start_time |-> IF timeMatch # <<>> THEN timeMatch[1] * 60 + timeMatch[2]
                     ELSE IF endMatch THEN END
                     ELSE 0,
      duration |-> IF durationMatch # NaN THEN durationMatch ELSE 3,
      color |-> IF \E k \in 1..Len(knownColors) : knownColors[k] = colorMatch
                  THEN ColorNames[CHOOSE k \in 1..Len(knownColors) : knownColors[k] = colorMatch]
                  ELSE "white",
      position |-> IF posMatch # 0 THEN PosNames[posMatch] ELSE pos4,
      bold |-> Has(lp, <<"b", "o", "l", "d">>),
      fontsize |-> IF fontSizeMatch # 0 THEN fontSizeMap[fontSizeMatch] ELSE 64]

\* getPositionXY: the x and y expressions of a named position.
getPositionXY(position) ==
  CASE position = "top-left" -> [x |-> "20", y |-> "20"]
    [] position = "top-center" -> [x |-> "(main_w-text_w)/2", y |-> "20"]
    [] position = "top-right" -> [x |-> "main_w-text_w-20", y |-> "20"]
    [] position = "bottom-left" -> [x |-> "20", y |-> "main_h-text_h-20"]
    [] position = "bottom-center" -> [x |-> "(main_w-text_w)/2", y |-> "main_h-text_h-20"]
    [] position = "bottom-right" -> [x |-> "main_w-text_w-20", y |-> "main_h-text_h-20"]
    [] OTHER -> [x |-> "(main_w-text_w)/2", y |-> "(main_h-text_h)/2"]

\* generateDrawtextCommand: the fields of the drawtext filter.
generateDrawtextCommand(data) ==
  [text |-> data.text,
   x |-> getPositionXY(data.position).x,
   y |-> getPositionXY(data.position).y,
   fontsize |-> IF data.fontsize = 0 THEN 36 ELSE data.fontsize,
   fontcolor |-> data.color,
   fontfile |-> data.bold,
   start |-> data.start_time,
   end |-> IF data.start_time = END THEN END ELSE data.start_time + data.duration]

\* ------------------------------------------------------------------------
\* POST /api/add-overlay
\* ------------------------------------------------------------------------

\* The ffmpeg of the handler: spawned with -y and without a timer.
AddOverlayRun(r, b, fs, inputFilePath, overlayData, st) ==
  LET out == <<cutsDir, GenName("overlay-", r, ExtName(b.filename))>>
      l == [inputPath |-> inputFilePath, overlayData |-> overlayData,
            drawtext |-> generateDrawtextCommand(overlayData), out |-> out]
  IN [Base(r) EXCEPT
        !.pc = "ov.run", !.loc = l,
        !.add = {Proc(r, "overlay", "overlay", fs, {inputFilePath}, TRUE, out,
                      IF Exists(fs, inputFilePath) THEN fs[inputFilePath].dur ELSE NaN,
                      TRUE, FALSE, st)},
        !.tags = <<"overlay">>]

\* The handler up to its first await: the input checks, the lookup of the
\* file, the interpretation of the prompt and, for an end-anchored overlay,
\* the probe of the duration; otherwise it goes on to the ffmpeg.
AddOverlayEntry(r, b, st) ==
  IF MissingStr(b.prompt) \/ MissingStr(b.filename) \/ Unsafe(b.filename)
    THEN Done(r, 400, "Invalid prompt or filename.")
  ELSE LET inputFilePath == getVideoPath(fsys, b.filename) IN
    IF inputFilePath = NoPath THEN Done(r, 404, "Video file not found.")
    ELSE LET overlayData == parseOverlayPrompt(b.prompt) IN
      IF overlayData.start_time = END
        THEN [Base(r) EXCEPT
                !.pc = "ov.probe",
                !.loc = [inputPath |-> inputFilePath, overlayData |-> overlayData],
                !.add = {Probe(r, "exec", fsys, inputFilePath, "running")},
                !.tags = <<"probe">>]
        ELSE AddOverlayRun(r, b, fsys, inputFilePath, overlayData, st)

\* AddOverlayProbed with the start time left as the prompt gave it.
AddOverlayProbedEndKept(r, b, p, err, st) ==
  IF err
    THEN [Done(r, 500, "Failed to get video duration.") EXCEPT !.del = {p}, !.fault = p.ok]
    ELSE LET durationSeconds == p.outDur
             e == AddOverlayRun(r, b, fsys, loc[r].inputPath, loc[r].overlayData, st)
         IN [e EXCEPT !.del = {p},
                      !.loc = e.loc @@ [durationSeconds |-> durationSeconds]]

\* The handler after getVideoDuration settled: END becomes
\* Math.floor(durationSeconds - overlayData.duration).
AddOverlayProbed(r, b, p, err, st) ==
  IF err
    THEN [Done(r, 500, "Failed to get video duration.") EXCEPT !.del = {p}, !.fault = p.ok]
    ELSE LET durationSeconds == p.outDur
             overlayData == [loc[r].overlayData EXCEPT
                               !.start_time =
                                 Floor(durationSeconds - Secs(loc[r].overlayData.duration))]
             e == AddOverlayRun(r, b, fsys, loc[r].inputPath, overlayData, st)
         IN [e EXCEPT !.del = {p},
                      !.loc = e.loc @@ [durationSeconds |-> durationSeconds]]

\* The 'close' handler: on code 0 an asynchronous fs.unlink of the input is
\* started and the handler answers; otherwise it answers 500.
AddOverlayClosed(r, fs, code0) ==
  LET l == loc[r] IN
  IF code0
    THEN [Base(r) EXCEPT
            !.fs = fs, !.pc = "done",
            !.add = {Proc(r, "unlink", "fs.unlink", fs, {}, TRUE, l.inputPath, 0,
                          FALSE, FALSE, "running")},
            !.reply = <<Reply(200, "Overlay added.", l.out, Made(fs, l.out, r))>>]
    ELSE [Base(r) EXCEPT
            !.fs = fs, !.pc = "done",
            !.reply = <<Reply(500, "Overlay failed.", NoPath, Made(fs, l.out, r))>>]

\* The 'error' handler, run for the spawn made by the callback with effect e.
AddOverlayErrored(r, e) ==
  [e EXCEPT
     !.pc = "done",
     !.reply = <<Reply(500, "Failed to start FFmpeg.", NoPath, Made(e.fs, e.loc.out, r))>>]

\* ------------------------------------------------------------------------
\* POST /api/export
\* ------------------------------------------------------------------------

allowedFormats == {"mp4", "mov", "avi", "webm", "mkv"}

\* newName.replace(/\s+/g, '_').
ReplaceBlanks(name) == [i \in 1..Len(name) |-> IF name[i] = " " THEN "_" ELSE name[i]]

\* `.${extension}` as the extension token of a file name.
DotExt(extension) ==
  CASE extension = "mov" -> ".mov"
    [] extension = "avi" -> ".avi"
    [] extension = "webm" -> ".webm"
    [] extension = "mkv" -> ".mkv"
    [] OTHER -> ".mp4"

\* Steps 2 and 3: the output file name, from newName when the caller gives
\* one and from the timestamp alone otherwise.
ExportName(b, ts) ==
  LET baseName == IF ~MissingStr(b.newName) THEN ReplaceBlanks(b.newName)
                  ELSE <<"exported-", ToString(ts)>>
      extension == IF b.targetFormat \in allowedFormats THEN b.targetFormat ELSE "mp4"
  IN baseName \o <<DotExt(extension)>>

\* The handler up to the registration of its callbacks.  path.join throws
\* on an absent filename and the framework answers 500.  ffmpeg runs with -y
\* and refuses an output that is its input; a timer that kills it is armed.
ExportEntry(r, b, ts, st) ==
  IF MissingStr(b.filename) THEN Done(r, 500, "Internal Server Error")
  ELSE LET inputFilePath == getVideoPath(fsys, b.filename) IN
    IF inputFilePath = NoPath \/ ~Exists(fsys, inputFilePath)
      THEN Done(r, 404, "Video file not found.")
    ELSE
      LET outputPath == Join(cutsDir, ExportName(b, ts))
          l == [inputPath |-> inputFilePath, out |-> outputPath]
      IN [Base(r) EXCEPT
            !.pc = "export.run", !.loc = l, !.now = ts,
            !.add = {Proc(r, "export", "export", fsys, {inputFilePath},
                          outputPath # inputFilePath, outputPath,
                          fsys[inputFilePath].dur, TRUE, TRUE, st)},
            !.tags = <<"export">>]

\* The 'close' handler.
ExportClosed(r, fs, code0) ==
  LET l == loc[r] IN
  IF code0
    THEN [Base(r) EXCEPT
            !.fs = fs, !.pc = "done",
            !.reply = <<Reply(200, "Export complete.", l.out, Made(fs, l.out, r))>>]
    ELSE [Base(r) EXCEPT
            !.fs = fs, !.pc = "done",
            !.reply = <<Reply(500, "Export failed.", NoPath, Made(fs, l.out, r))>>]

\* The 'error' handler, run for the spawn made by the callback with effect e.
ExportErrored(r, e) ==
  [e EXCEPT
     !.pc = "done",
     !.reply = <<Reply(500, "Failed to start FFmpeg.", NoPath, Made(e.fs, e.loc.out, r))>>]

\* ------------------------------------------------------------------------
\* POST /api/cut-video
\* ------------------------------------------------------------------------

\* The handler up to the exec of ffprobe.
CutVideoEntry(r, b) ==
  IF MissingStr(b.filename) \/ MissingStr(b.start) \/ MissingStr(b.end)
    THEN Done(r, 400, "Missing required fields: filename, start, and end.")
  ELSE IF Unsafe(b.filename) THEN Done(r, 400, "Invalid filename.")
  ELSE LET inputFilePath == getVideoPath(fsys, b.filename) IN
    IF inputFilePath = NoPath THEN Done(r, 404, "Video file not found.")
    ELSE [Base(r) EXCEPT
            !.pc = "cut.probe",
            !.loc = [inputPath |-> inputFilePath],
            !.add = {Probe(r, "exec", fsys, inputFilePath, "running")},
            !.tags = <<"probe">>]

\* The callback of exec.  After the checks it builds the arguments of
\* ffmpeg, among them outputFilePath, which no scope of the handler
\* declares: the ReferenceError leaves the callback before spawn is called
\* and before any answer.
CutVideoProbed(r, b, p, err) ==
  IF err
    THEN [Done(r, 500, "Failed to analyze video duration.") EXCEPT !.del = {p}, !.fault = p.ok]
  ELSE
    LET videoDuration == p.outDur
        resolvedStart == resolveRelativeTime(b.start, videoDuration)
        resolvedEnd == resolveRelativeTime(b.end, videoDuration)
        times == [inputPath |-> loc[r].inputPath, videoDuration |-> videoDuration,
                  resolvedStart |-> resolvedStart, resolvedEnd |-> resolvedEnd]
    IN IF ~TimeRegexTest(resolvedStart) \/ ~TimeRegexTest(resolvedEnd)
         THEN [Done(r, 400, "Invalid time format. Use HH:MM:SS.")
                 EXCEPT !.del = {p}, !.loc = times]
       ELSE
         LET startSeconds == timeToSeconds(resolvedStart)
             endSeconds == timeToSeconds(resolvedEnd)
             adjustedEnd == IF Gt(endSeconds, videoDuration)
                              THEN secondsToTime(videoDuration) ELSE resolvedEnd
         IN IF endSeconds <= startSeconds
              THEN [Done(r, 400, "End time must be after start time.")
                      EXCEPT !.del = {p}, !.loc = times]
              ELSE [Base(r) EXCEPT
                      !.pc = "threw", !.del = {p}, !.crash = TRUE,
                      !.loc = [inputPath |-> loc[r].inputPath,
                               videoDuration |-> videoDuration,
                               resolvedStart |-> resolvedStart,
                               resolvedEnd |-> resolvedEnd,
                               ss |-> resolvedStart, to |-> adjustedEnd]]

\* ------------------------------------------------------------------------
\* POST /api/extract-audio
\* ------------------------------------------------------------------------

\* format.toLowerCase() for the formats of the model.
FormatLower(format) ==
  CASE format = "WAV" -> "wav"
    [] format = "MP3" -> "mp3"
    [] OTHER -> format

\* The handler up to its await.  The body's format travels in the field
\* targetFormat; '' stands for an absent format.  The input is looked for in
\* the uploads directory alone, by path.join on the filename as given.
ExtractAudioEntry(r, b, st) ==
  IF MissingStr(b.filename) THEN Done(r, 400, "Missing filename")
  ELSE LET inputPath == Join(uploadDir, b.filename) IN
    IF ~Exists(fsys, inputPath) THEN Done(r, 404, "Video file not found.")
    ELSE IF b.targetFormat # "" /\ FormatLower(b.targetFormat) \notin {"wav", "mp3"}
      THEN Done(r, 400, "Unsupported format")
    ELSE
      LET outputFormat == IF b.targetFormat # "" /\ FormatLower(b.targetFormat) = "wav"
                            THEN ".wav" ELSE ".mp3"
          l == [inputPath |-> inputPath,
                out |-> <<downloadDir, GenName("audio-", r, <<outputFormat>>)>>]
      IN [Base(r) EXCEPT
            !.pc = "audio.run", !.loc = l,
            !.add = {Proc(r, "audio", "runFFmpeg", fsys, {inputPath}, TRUE,
                          l.out, fsys[inputPath].dur, FALSE, TRUE, st)},
            !.tags = <<"audio">>]

\* The handler after runFFmpeg resolved.
ExtractAudioDone(r, fs) ==
  [Base(r) EXCEPT
     !.fs = fs, !.pc = "done",
     !.reply = <<Reply(200, "", loc[r].out, Made(fs, loc[r].out, r))>>]

\* The catch block of the handler, entered from the callback with effect e.
ExtractAudioCatch(r, e) ==
  [e EXCEPT
     !.pc = "done",
     !.reply = <<Reply(500, "Audio extraction failed", NoPath,
                       Made(e.fs, e.loc.out, r))>>]

\* ------------------------------------------------------------------------
\* POST /api/parse-prompt
\* ------------------------------------------------------------------------

\* The action tags the validator lets through.
supportedActions ==
  {"cut", "trim", "add_subtitles", "export", "remove_segment", "undo",
   "add_overlay", "extract_audio", "slow_motion"}

\* res.status(status).json({success, message, actions}).
ReplyActions(status, message, actions) ==
  [status |-> status, success |-> (status = 200), message |-> message,
   actions |-> actions]

\* The handler up to the await of the classifier.
ParsePromptEntry(r, b) ==
  IF MissingStr(b.prompt) THEN Done(r, 400, "No prompt provided")
  ELSE [Base(r) EXCEPT
          !.pc = "parse.await", !.loc = [inputPath |-> NoPath, out |-> NoPath],
          !.add = {Proc(r, "classify", "openai", fsys, {}, TRUE,
                        NoPath, 0, FALSE, FALSE, "running")}]

\* The loop over the batch, cut short: only the first action is tested.
ParsePromptClassifiedFirstOnly(r, p, actions) ==
  LET l == [inputPath |-> NoPath, out |-> NoPath, actions |-> actions]
  IN IF actions # <<>> /\ actions[1] \notin supportedActions
       THEN [Base(r) EXCEPT
               !.pc = "done", !.del = {p}, !.loc = l,
               !.reply = <<ReplyActions(400,
                             "The requested action '" \o actions[1]
                               \o "' is not currently supported.", <<>>)>>]
       ELSE [Base(r) EXCEPT
               !.pc = "done", !.del = {p}, !.loc = l,
               !.reply = <<ReplyActions(200, "", actions)>>]

\* The handler after the classifier answered with a batch of actions, each
\* taken by its tag: the loop over the batch answers at the first tag that
\* is not supported; a batch that passes is returned whole.
ParsePromptClassified(r, p, actions) ==
  LET bad == {i \in 1..Len(actions) : actions[i] \notin supportedActions}
      l == [inputPath |-> NoPath, out |-> NoPath, actions |-> actions]
  IN IF bad # {}
       THEN [Base(r) EXCEPT
               !.pc = "done", !.del = {p}, !.loc = l,
               !.reply = <<ReplyActions(400,
                             "The requested action '" \o actions[Least(bad)]
                               \o "' is not currently supported.", <<>>)>>]
       ELSE [Base(r) EXCEPT
               !.pc = "done", !.del = {p}, !.loc = l,
               !.reply = <<ReplyActions(200, "", actions)>>]

\* The catch block: the call of the classifier failed, or its answer is
\* not the JSON of a batch.
ParsePromptCatch(r, p) ==
  [Base(r) EXCEPT
     !.pc = "done", !.del = {p}, !.fault = TRUE,
     !.reply = <<ReplyActions(500, "Failed to parse prompt", <<>>)>>]

\* ------------------------------------------------------------------------
\* Requests
\* ------------------------------------------------------------------------

V1 == <<"v1", ".mp4">>

C1 == <<"c1", ".mp4">>

\* "00:00:02", "00:00:05" and a string that is no time.
Time02 == <<"0", "0", ":", "0", "0", ":", "0", "2">>

Time05 == <<"0", "0", ":", "0", "0", ":", "0", "5">>

TimeBad == <<"x", "x">>

\* "Add 'Bye' at the end in red".
PromptEnd ==
  <<"A", "d", "d", " ", "'", "B", "y", "e", "'", " ", "a", "t", " ",
    "t", "h", "e", " ", "e", "n", "d", " ", "i", "n", " ", "r", "e", "d">>

\* "Add 'Bye' at the end in red for 5 seconds".
PromptEndFor5 ==
  PromptEnd \o <<" ", "f", "o", "r", " ", "5", " ", "s", "e", "c", "o", "n", "d", "s">>

\* "Add 'Bye' at 2".
PromptAt2 == SubSeq(PromptEnd, 1, 13) \o <<"2">>

\* The request bodies of the concurrent specification: for each handler a
\* request that passes its checks and, where the handler checks anything
\* after the probe, one that fails there; an export under the default name
\* and one under the name of an existing artifact.
Bodies ==
  { Body("cut", V1, Time02, Time05, 0, <<>>, <<>>, ""),
    Body("cut", V1, TimeBad, Time05, 0, <<>>, <<>>, ""),
    Body("add-overlay", V1, <<>>, <<>>, 0, PromptEnd, <<>>, ""),
    Body("slow-motion", V1, Time02, Time05, 50, <<>>, <<>>, ""),
    Body("slow-motion", V1, Time02, Time05, 600, <<>>, <<>>, ""),
    Body("add-subtitles", V1, <<>>, <<>>, 0, <<>>, <<>>, ""),
    Body("remove-segment", V1, Time02, Time05, 0, <<>>, <<>>, ""),
    Body("remove-segment", V1, TimeBad, Time05, 0, <<>>, <<>>, ""),
    Body("export", V1, <<>>, <<>>, 0, <<>>, <<>>, ""),
    Body("export", V1, <<>>, <<>>, 0, <<>>, <<"c1">>, "mp4") }

\* A name that is in neither directory, and a name that climbs from the
\* uploads directory into the artifacts directory: "../cuts/c1.mp4".
Gone == <<"gone", ".mp4">>

Climb == <<"..", "/", "cuts", "/", "c1", ".mp4">>

\* "00:00:15", "0:00:04", "end-00:00:02" and "end-00:00:05".
Time15 == <<"0", "0", ":", "0", "0", ":", "1", "5">>

Hour0Time04 == <<"0", ":", "0", "0", ":", "0", "4">>

EndMinus02 == StrEndMinus \o Time02

EndMinus05 == StrEndMinus \o Time05

\* The start and end expressions of the requests of one-request runs.
Starts == {StrStart, StrBeginning, StrZero, Time02, Time05, TimeBad, EndMinus05}

Ends == {StrEnd, Time05, Time15, Hour0Time04, EndMinus02, TimeBad}

\* The speeds of the one-request specification, in hundredths: 0.05, 0.1, 5,
\* 5.01, -1 and one that is not a number.
Speeds == {5, 10, 500, 501, 0 - 100, NaN}

\* The request bodies of the one-request specification: every endpoint,
\* on a file in the uploads directory, on one in the artifacts directory, on
\* a missing one and under a climbing name; the endpoints that take times,
\* with every pair of the expressions above.
BodiesOne ==
  { Body(op, f, st, en, 50, <<>>, <<>>, "") :
      op \in {"cut", "slow-motion", "remove-segment"}, f \in {V1, C1},
      st \in Starts, en \in Ends }
  \cup
  { Body(op, f, Time02, Time05, 50, <<>>, <<>>, "") :
      op \in {"cut", "slow-motion", "remove-segment"}, f \in {Gone, Climb} }
  \cup
  { Body("cut", V1, <<>>, Time05, 0, <<>>, <<>>, ""),
    Body("slow-motion", V1, Time02, Time05, 600, <<>>, <<>>, "") }
  \cup
  { Body("slow-motion", V1, Time02, Time05, sp, <<>>, <<>>, "") : sp \in Speeds }
  \cup
  { Body("add-overlay", f, <<>>, <<>>, 0, PromptEnd, <<>>, "") : f \in {V1, C1, Gone, Climb} }
  \cup
  { Body("add-overlay", f, <<>>, <<>>, 0, pr, <<>>, "") :
      f \in {V1, C1}, pr \in {PromptEndFor5, PromptAt2} }
  \cup
  { Body("add-subtitles", f, <<>>, <<>>, 0, <<>>, <<>>, "") : f \in {V1, C1, Gone, Climb} }
  \cup
  { Body("export", f, <<>>, <<>>, 0, <<>>, n, "") :
      f \in {V1, C1, Gone, Climb}, n \in {<<>>, <<"c1">>} }
  \cup
  { Body("extract-audio", f, <<>>, <<>>, 0, <<>>, <<>>, fmt) :
      f \in {V1, C1, Gone, Climb}, fmt \in {"", "WAV", "ogg"} }
  \cup
  { Body("parse-prompt", <<>>, <<>>, <<>>, 0, pr, <<>>, "") : pr \in {PromptEnd, <<>>} }

\* The longest batch of actions the classifier returns.
MaxBatch == 3

\* The tags the classifier returns: those of its instructions (423-430,
\* 444-445), 'trim' and one it was never told of.
ClassifierTags ==
  {"cut", "remove_segment", "add_subtitles", "export", "undo", "redo",
   "add_overlay", "extract_audio", "slow_motion", "trim", "fly"}

\* The batches of at most MaxBatch actions, each action taken by its tag.
Batches == UNION {[1..n -> ClassifierTags] : n \in 0..MaxBatch}

\* ------------------------------------------------------------------------
\* runFFmpeg (the copies in slow-motion, add-subtitles and remove-segment)
\* and the events of the child processes
\* ------------------------------------------------------------------------

RunPcs ==
  {"slow.stage", "slow.concat", "sub.audio", "sub.burn", "rm.stage", "rm.concat",
   "audio.run"}

\* The handler suspended at e.pc resumes in its catch block: an awaited
\* promise rejected.
Caught(r, e) ==
  CASE e.pc \in {"slow.stage", "slow.concat"} -> SlowMotionCatch(r, e)
    [] e.pc \in {"sub.audio", "sub.transcribe", "sub.burn"} -> AddSubtitlesCatch(r, e)
    [] e.pc \in {"rm.probe", "rm.stage", "rm.concat"} -> RemoveSegmentCatch(r, e)
    [] e.pc = "audio.run" -> ExtractAudioCatch(r, e)

\* The callback with effect e made a spawn that failed: 'error' is
\* delivered before anything else runs.  runFFmpeg and getDuration reject, and
\* the handler's catch block answers; the 'close' that follows finds their
\* promise settled and changes nothing, so the process is forgotten here.
\* add-overlay and export answer from their 'error' handlers, and their
\* 'close' handlers are still to run.
SpawnFailed(r, e, p) ==
  LET e0 == [e EXCEPT !.add = {}, !.fault = TRUE]
      e1 == [e0 EXCEPT !.add = {[p EXCEPT !.st = "errored"]}]
  IN CASE p.via = "runFFmpeg" ->
            Thrown("spawn ffmpeg ENOENT", [Caught(r, e0) EXCEPT !.failed = TRUE])
       [] p.via = "getDuration" -> ProbeEnded(FALSE, Caught(r, e0))
       [] p.via = "overlay" -> [AddOverlayErrored(r, e1) EXCEPT !.failed = TRUE]
       [] p.via = "export" -> [ExportErrored(r, e1) EXCEPT !.failed = TRUE]

\* The effect e of a callback, with the 'error' of a spawn it made.
Settle(r, e) ==
  IF \E p \in e.add : p.st = "spawnerr"
    THEN SpawnFailed(r, e, CHOOSE p \in e.add : p.st = "spawnerr")
    ELSE e

\* The handler resumes after `await runFFmpeg(..)` resolved.
Resolved(r, fs, st) ==
  CASE pc[r] = "slow.stage" -> SlowMotionStaged(r, fs, st)
    [] pc[r] = "slow.concat" -> SlowMotionConcatenated(r, fs)
    [] pc[r] = "sub.audio" -> AddSubtitlesExtracted(r, fs)
    [] pc[r] = "sub.burn" -> AddSubtitlesBurned(r, fs)
    [] pc[r] = "rm.stage" -> RemoveSegmentStaged(r, fs, st)
    [] pc[r] = "rm.concat" -> RemoveSegmentConcatenated(r, fs)
    [] pc[r] = "audio.run" -> ExtractAudioDone(r, fs)

\* A runFFmpeg whose promise resolves whatever became of the process: the
\* handler goes on with its next stage.
RejectedAndWentOn(r, fs) ==
  IF pc[r] \in RunPcs THEN Resolved(r, fs, "running")
  ELSE Caught(r, [Base(r) EXCEPT !.fs = fs])

\* The handler resumes in its catch block after `await runFFmpeg(..)`
\* rejected.
Rejected(r, fs) == Caught(r, [Base(r) EXCEPT !.fs = fs])

\* ------------------------------------------------------------------------
\* Initial state and actions
\* ------------------------------------------------------------------------

Init ==
  /\ up = TRUE
  /\ now = 0
  /\ fsys = InitFiles
  /\ body = [r \in Reqs |-> NoBody]
  /\ pc = [r \in Reqs |-> "idle"]
  /\ loc = [r \in Reqs |-> [inputPath |-> NoPath]]
  /\ resp = [r \in Reqs |-> <<>>]
  /\ procs = {}
  /\ hist = [r \in Reqs |-> [spawned |-> <<>>, fault |-> FALSE, failed |-> FALSE,
                              probe |-> "none"]]

\* Request r arrives with body b; requests are numbered in arrival order.
Arrives(r, b, op) ==
  /\ up
  /\ pc[r] = "idle"
  /\ IF r = 1 THEN TRUE ELSE pc[r - 1] # "idle"
  /\ b.op = op
  /\ body' = [body EXCEPT ![r] = b]

\* An event of process p of request r, whose handler is suspended at one
\* of at, is delivered.
Awaits(p, r, at, via, sts) ==
  /\ up
  /\ p.req = r
  /\ pc[r] \in at
  /\ p.via \in via
  /\ p.st \in sts
  /\ UNCHANGED body

\* Whether p can open its output for writing: with -y, or when it is new.
CanWrite(p) == p.y \/ ~Exists(fsys, p.out)

\* The filesystem after p has stopped: with code 0 its output is complete;
\* stopped early, by itself or by the kill, it leaves the part it wrote,
\* unless it refused its arguments or its input.
AfterExit(p, code0) ==
  IF code0 THEN WriteFile(fsys, p.out, p.req, p.outDur)
  ELSE IF p.ok /\ CanWrite(p) THEN WritePartial(fsys, p.out, p.req)
  ELSE fsys

\* A callback that runs while p is still running: what it awaited was not
\* the exit of p.
ExitedNotAwaited(p, code0, e) ==
  [e EXCEPT !.fault = @ \/ (~code0 /\ p.ok /\ CanWrite(p)),
            !.failed = @ \/ ~code0]

\* The effect e of the callback run by the exit of p with code 0 or not.
Exited(p, code0, e) ==
  [e EXCEPT !.del = {p}, !.fault = @ \/ (~code0 /\ p.ok /\ CanWrite(p)),
            !.failed = @ \/ ~code0]

CutVideo(r, B) ==
  \E b \in B :
    /\ Arrives(r, b, "cut")
    /\ Commit(r, CutVideoEntry(r, b))

\* The callback of the exec of ffprobe in cut-video.
CutVideoProbe(r) ==
  \E p \in procs, err \in BOOLEAN :
    /\ Awaits(p, r, {"cut.probe"}, {"exec"}, {"running"})
    /\ ~p.ok => err
    /\ Commit(r, ProbeEnded(~err, CutVideoProbed(r, body[r], p, err)))

AddOverlay(r, B) ==
  \E b \in B, st \in SpawnSts :
    /\ Arrives(r, b, "add-overlay")
    /\ Commit(r, Settle(r, AddOverlayEntry(r, b, st)))

\* getVideoDuration settles in add-overlay.
AddOverlayProbe(r) ==
  \E p \in procs, err \in BOOLEAN, st \in SpawnSts :
    /\ Awaits(p, r, {"ov.probe"}, {"exec"}, {"running"})
    /\ ~p.ok => err
    /\ Commit(r, Settle(r, ProbeEnded(~err, AddOverlayProbed(r, body[r], p, err, st))))

\* 'close' of the overlay ffmpeg that ran.
AddOverlayClose(r) ==
  \E p \in procs, code0 \in BOOLEAN :
    /\ Awaits(p, r, {"ov.run"}, {"overlay"}, {"running"})
    /\ code0 => p.ok /\ CanWrite(p)
    /\ Commit(r, Exited(p, code0, AddOverlayClosed(r, AfterExit(p, code0), code0)))

\* 'close' after 'error': the 'close' handler runs with a non-zero code.
AddOverlayLateClose(r) ==
  \E p \in procs :
    /\ Awaits(p, r, {"done"}, {"overlay"}, {"errored"})
    /\ Commit(r, [AddOverlayClosed(r, fsys, FALSE) EXCEPT !.del = {p}])

\* The asynchronous fs.unlink started by the overlay 'close' handler.
AsyncUnlink(r) ==
  \E p \in procs :
    /\ Awaits(p, r, {"done"}, {"fs.unlink"}, {"running"})
    /\ Commit(r, [Base(r) EXCEPT !.fs = Unlink(fsys, {p.out}), !.del = {p}])

SlowMotion(r, B) ==
  \E b \in B :
    /\ Arrives(r, b, "slow-motion")
    /\ Commit(r, SlowMotionEntry(r, b))

\* getVideoDuration settles in slow-motion.
SlowMotionProbe(r) ==
  \E p \in procs, err \in BOOLEAN, st \in SpawnSts :
    /\ Awaits(p, r, {"slow.probe"}, {"exec"}, {"running"})
    /\ ~p.ok => err
    /\ Commit(r, Settle(r, ProbeEnded(~err, SlowMotionProbed(r, body[r], p, err, st))))

AddSubtitles(r, B) ==
  \E b \in B, st \in SpawnSts :
    /\ Arrives(r, b, "add-subtitles")
    /\ Commit(r, Settle(r, AddSubtitlesEntry(r, b, st)))

\* The transcription service answers, or the call fails.
Transcription(r) ==
  \E p \in procs, ok \in BOOLEAN, st \in SpawnSts :
    /\ Awaits(p, r, {"sub.transcribe"}, {"openai"}, {"running"})
    /\ ok => p.ok
    /\ Commit(r, IF ok THEN Settle(r, AddSubtitlesTranscribed(r, p, st))
                 ELSE Thrown("Connection error.",
                             [Rejected(r, fsys) EXCEPT
                                !.del = {p}, !.fault = p.ok, !.failed = TRUE]))

RemoveSegment(r, B) ==
  \E b \in B, st \in SpawnSts :
    /\ Arrives(r, b, "remove-segment")
    /\ Commit(r, Settle(r, RemoveSegmentEntry(r, b, st)))

\* 'close' of getDuration's ffprobe: the promise resolves with
\* parseFloat of what it printed, whatever its exit code.
GetDurationClose(r) ==
  \E p \in procs, good \in BOOLEAN, st \in SpawnSts :
    /\ Awaits(p, r, {"rm.probe"}, {"getDuration"}, {"running"})
    /\ good => p.ok
    /\ LET e == RemoveSegmentProbed(r, body[r], p, IF good THEN p.outDur ELSE NaN, st)
       IN Commit(r, Settle(r, ProbeEnded(good, [e EXCEPT !.fault = ~good /\ p.ok])))

Export(r, B) ==
  \E b \in B, ts \in Clock, st \in SpawnSts :
    /\ Arrives(r, b, "export")
    /\ Commit(r, Settle(r, ExportEntry(r, b, ts, st)))

\* 'close' of the export ffmpeg that ran to its exit.
ExportClose(r) ==
  \E p \in procs, code0 \in BOOLEAN :
    /\ Awaits(p, r, {"export.run"}, {"export"}, {"running"})
    /\ code0 => p.ok /\ CanWrite(p)
    /\ Commit(r, Exited(p, code0, ExportClosed(r, AfterExit(p, code0), code0)))

\* The timer of export fires: the process is killed; nothing is answered.
ExportTimeout(r) ==
  \E p \in procs :
    /\ Awaits(p, r, {"export.run"}, {"export"}, {"running"})
    /\ p.timed
    /\ Commit(r, [Base(r) EXCEPT
                    !.fs = AfterExit(p, FALSE),
                    !.del = {p}, !.add = {[p EXCEPT !.st = "killed"]},
                    !.fault = TRUE, !.failed = TRUE])

\* 'close' after the kill or after 'error': the 'close' handler runs with
\* a code that is not 0.
ExportLateClose(r) ==
  \E p \in procs :
    /\ Awaits(p, r, {"export.run", "done"}, {"export"}, {"killed", "errored"})
    /\ Commit(r, [ExportClosed(r, fsys, FALSE) EXCEPT !.del = {p}])

\* 'close' of a process started by runFFmpeg: the timer is cleared; the
\* promise resolves on code 0 and rejects otherwise.
RunClose(r) ==
  \E p \in procs, code0 \in BOOLEAN, st \in SpawnSts :
    /\ Awaits(p, r, RunPcs, {"runFFmpeg"}, {"running"})
    /\ code0 => p.ok /\ CanWrite(p)
    /\ LET fs == AfterExit(p, code0)
       IN Commit(r, Exited(p, code0, IF code0 THEN Settle(r, Resolved(r, fs, st))
                                     ELSE Thrown("FFmpeg exited with code 1",
                                                 Rejected(r, fs))))

\* The timer of runFFmpeg fires: the process is killed and the promise
\* rejects; the 'close' that follows finds the promise settled and changes
\* nothing.
RunTimeout(r) ==
  \E p \in procs :
    /\ Awaits(p, r, RunPcs, {"runFFmpeg"}, {"running"})
    /\ p.timed
    /\ Commit(r, Thrown("FFmpeg timed out",
                         [Rejected(r, AfterExit(p, FALSE)) EXCEPT
                            !.del = {p}, !.fault = TRUE, !.failed = TRUE]))

ExtractAudio(r, B) ==
  \E b \in B, st \in SpawnSts :
    /\ Arrives(r, b, "extract-audio")
    /\ Commit(r, Settle(r, ExtractAudioEntry(r, b, st)))

ParsePrompt(r, B) ==
  \E b \in B :
    /\ Arrives(r, b, "parse-prompt")
    /\ Commit(r, ParsePromptEntry(r, b))

\* The classifier answers with a batch of actions.
Classified(r) ==
  \E p \in procs, actions \in Batches :
    /\ Awaits(p, r, {"parse.await"}, {"openai"}, {"running"})
    /\ Commit(r, ParsePromptClassified(r, p, actions))

\* The call of the classifier fails, or its answer cannot be parsed.
ClassifierFailed(r) ==
  \E p \in procs :
    /\ Awaits(p, r, {"parse.await"}, {"openai"}, {"running"})
    /\ Commit(r, ParsePromptCatch(r, p))

Next ==
  \E r \in Reqs :
    \/ CutVideo(r, Bodies)
    \/ CutVideoProbe(r)
    \/ AddOverlay(r, Bodies)
    \/ AddOverlayProbe(r)
    \/ AddOverlayClose(r)
    \/ AddOverlayLateClose(r)
    \/ AsyncUnlink(r)
    \/ SlowMotion(r, Bodies)
    \/ SlowMotionProbe(r)
    \/ AddSubtitles(r, Bodies)
    \/ Transcription(r)
    \/ RemoveSegment(r, Bodies)
    \/ GetDurationClose(r)
    \/ Export(r, Bodies)
    \/ ExportClose(r)
    \/ ExportTimeout(r)
    \/ ExportLateClose(r)
    \/ RunClose(r)
    \/ RunTimeout(r)

\* The interleavings of the requests that share files: the edit handlers,
\* which read, write and delete under the uploads directories.
Spec == Init /\ [][Next]_vars

\* The request that arrives first.
First == {r \in Reqs : \A q \in Reqs : r <= q}

\* One request to any endpoint, extract-audio and parse-prompt included,
\* with a body of BodiesOne.
NextOne ==
  \E r \in First :
    \/ CutVideo(r, BodiesOne)
    \/ CutVideoProbe(r)
    \/ AddOverlay(r, BodiesOne)
    \/ AddOverlayProbe(r)
    \/ AddOverlayClose(r)
    \/ AddOverlayLateClose(r)
    \/ AsyncUnlink(r)
    \/ SlowMotion(r, BodiesOne)
    \/ SlowMotionProbe(r)
    \/ AddSubtitles(r, BodiesOne)
    \/ Transcription(r)
    \/ RemoveSegment(r, BodiesOne)
    \/ GetDurationClose(r)
    \/ Export(r, BodiesOne)
    \/ ExportClose(r)
    \/ ExportTimeout(r)
    \/ ExportLateClose(r)
    \/ ExtractAudio(r, BodiesOne)
    \/ ParsePrompt(r, BodiesOne)
    \/ Classified(r)
    \/ ClassifierFailed(r)
    \/ RunClose(r)
    \/ RunTimeout(r)

SpecOne == Init /\ [][NextOne]_vars

\* ------------------------------------------------------------------------
\* The time functions, called on their own
\* ------------------------------------------------------------------------

\* n < 100 as two digits, and n < 10 as one.
TwoDigits(n) == <<Digits[(n \div 10) + 1], Digits[(n % 10) + 1]>>

OneDigit(n) == <<Digits[n + 1]>>

\* The hours, and the minutes and seconds, of the strings timeFormatRegex
\* accepts.
Hours == 0..23

Sixty == 0..59

\* A string timeFormatRegex accepts: the hour in two digits, or in one when
\* it is below ten and short is asked for.
AcceptedTime(h, m, s, short) ==
  (IF short /\ h < 10 THEN OneDigit(h) ELSE TwoDigits(h))
    \o <<":">> \o TwoDigits(m) \o <<":">> \o TwoDigits(s)

\* The whole numbers of seconds of a day.
DaySeconds == 0..(24 * 3600 - 1)

\* The longest time, and twice the longest duration, of the calls of
\* resolveRelativeTime, in seconds.
MaxSecs == 12

\* The time expressions resolveRelativeTime is called with: the symbolic
\* forms, the times 00:00:00 to 00:00:MaxSecs, and "end-" before each.
TimeExprs ==
  {StrStart, StrBeginning, StrEnd}
  \cup {StrZero} \cup {<<"0", "0", ":", "0", "0", ":">> \o TwoDigits(n) : n \in 0..MaxSecs}
  \cup {StrEndMinus \o <<"0", "0", ":", "0", "0", ":">> \o TwoDigits(n) : n \in 0..MaxSecs}

\* The durations it is called with, in half seconds.
Durations == 0..(2 * MaxSecs)

\* Request r has made no call yet.
NotCalled(r) == up /\ pc[r] = "idle"

\* A function is called for request r; l holds the arguments and the value
\* returned.
Calls(r, l) ==
  /\ pc' = [pc EXCEPT ![r] = "called"]
  /\ loc' = [loc EXCEPT ![r] = l]
  /\ UNCHANGED <<up, now, fsys, body, resp, procs, hist>>

\* resolveRelativeTime(timeStr, videoDuration).
Resolves(r) ==
  /\ NotCalled(r)
  /\ \E timeStr \in TimeExprs, videoDuration \in Durations :
       Calls(r, [fn |-> "resolveRelativeTime", timeStr |-> timeStr,
                 videoDuration |-> videoDuration,
                 returned |-> resolveRelativeTime(timeStr, videoDuration)])

\* secondsToTime(timeToSeconds(time)).
ConvertsTime(r) ==
  /\ NotCalled(r)
  /\ \E h \in Hours, m \in Sixty, s \in Sixty, short \in BOOLEAN :
       LET time == AcceptedTime(h, m, s, short)
       IN Calls(r, [fn |-> "timeToSeconds", time |-> time,
                    returned |-> timeToSeconds(time),
                    back |-> secondsToTime(timeToSeconds(time))])

\* timeToSeconds(secondsToTime(seconds)).
ConvertsSeconds(r) ==
  /\ NotCalled(r)
  /\ \E seconds \in DaySeconds :
       Calls(r, [fn |-> "secondsToTime", seconds |-> Secs(seconds),
                 returned |-> secondsToTime(Secs(seconds)),
                 back |-> timeToSeconds(secondsToTime(Secs(seconds)))])

\* "Add 'Subscribe Now' at the end in red top-right bold text".
PromptSubscribe ==
  <<"A", "d", "d", " ", "'", "S", "u", "b", "s", "c", "r", "i", "b", "e", " ", "N", "o", "w", "'", " ", "a", "t", " ", 
    "t", "h", "e", " ", "e", "n", "d", " ", "i", "n", " ", "r", "e", "d", " ", 
    "t", "o", "p", "-", "r", "i", "g", "h", "t", " ", "b", "o", "l", "d", " ", "t", "e", "x", "t">>

\* "Add 'Hi' at the", which the words of a prompt follow.
PromptHi == <<"A", "d", "d", " ", "'", "H", "i", "'", " ", "a", "t", " ", "t", "h", "e">>

\* The words of the prompts: the directional keywords and anchors, in lower
\* case and not.
WordTop == <<"t", "o", "p">>

WordBottom == <<"b", "o", "t", "t", "o", "m">>

WordLeft == <<"l", "e", "f", "t">>

WordRight == <<"r", "i", "g", "h", "t">>

PromptWords ==
  {WordTop, WordBottom, WordLeft, WordRight,
   <<"R", "i", "g", "h", "t">>, <<"c", "e", "n", "t", "e", "r">>,
   <<"t", "o", "p", "-", "l", "e", "f", "t">>, <<"B", "o", "t", "t", "o", "m", "-", "R", "i", "g", "h", "t">>}

\* The most words in a prompt.
MaxWords == 3

RECURSIVE Spaced(_)
\* The words ws, a blank before each.
Spaced(ws) == IF ws = <<>> THEN <<>> ELSE <<" ">> \o ws[1] \o Spaced(Tail(ws))

\* The lists of at most MaxWords words.
WordLists == UNION {[1..n -> PromptWords] : n \in 0..MaxWords}

\* parseOverlayPrompt(prompt), for the prompt of C26 and for "Add 'Hi' at
\* the" followed by words.
Interprets(r) ==
  /\ NotCalled(r)
  /\ \/ Calls(r, [fn |-> "parseOverlayPrompt", prompt |-> PromptSubscribe,
                  words |-> <<>>,
                  returned |-> parseOverlayPrompt(PromptSubscribe)])
     \/ \E ws \in WordLists :
          Calls(r, [fn |-> "parseOverlayPrompt", prompt |-> PromptHi \o Spaced(ws),
                    words |-> ws,
                    returned |-> parseOverlayPrompt(PromptHi \o Spaced(ws))])

\* "Add 'Hi'", which the phrases of a prompt follow.
PromptAddHi == <<"A", "d", "d", " ", "'", "H", "i", "'">>

\* The phrases of the prompts: "at 1:30", "at 2", "minute 12", "at 1:5", "at 100",
\* "at the end", "at end of the video", "at the start", "for 5 seconds", "in red",
\* "in Teal", "in format 12", "huge", "extra large", "bold",
\* "top".
PromptPhrases ==
  {<<"a", "t", " ", "1", ":", "3", "0">>,
   <<"a", "t", " ", "2">>,
   <<"m", "i", "n", "u", "t", "e", " ", "1", "2">>,
   <<"a", "t", " ", "1", ":", "5">>,
   <<"a", "t", " ", "1", "0", "0">>,
   <<"a", "t", " ", "t", "h", "e", " ", "e", "n", "d">>,
   <<"a", "t", " ", "e", "n", "d", " ", "o", "f", " ", "t", "h", "e", " ", "v", "i", "d", "e", "o">>,
   <<"a", "t", " ", "t", "h", "e", " ", "s", "t", "a", "r", "t">>,
   <<"f", "o", "r", " ", "5", " ", "s", "e", "c", "o", "n", "d", "s">>,
   <<"i", "n", " ", "r", "e", "d">>,
   <<"i", "n", " ", "T", "e", "a", "l">>,
   <<"i", "n", " ", "f", "o", "r", "m", "a", "t", " ", "1", "2">>,
   <<"h", "u", "g", "e">>,
   <<"e", "x", "t", "r", "a", " ", "l", "a", "r", "g", "e">>,
   <<"b", "o", "l", "d">>,
   <<"t", "o", "p">>}

\* The most phrases in a prompt.
MaxPhrases == 2

\* The lists of at most MaxPhrases phrases.
PhraseLists == UNION {[1..n -> PromptPhrases] : n \in 0..MaxPhrases}

\* parseOverlayPrompt(prompt), for "Add 'Hi'" followed by phrases.
InterpretsPhrases(r) ==
  /\ NotCalled(r)
  /\ \E ws \in PhraseLists :
       Calls(r, [fn |-> "parseOverlayPrompt", prompt |-> PromptAddHi \o Spaced(ws),
                 phrases |-> ws,
                 returned |-> parseOverlayPrompt(PromptAddHi \o Spaced(ws))])

NextFn ==
  \E r \in First :
    \/ Resolves(r)
    \/ ConvertsTime(r)
    \/ ConvertsSeconds(r)
    \/ Interprets(r)
    \/ InterpretsPhrases(r)

\* One call of one of the functions.
SpecFn == Init /\ [][NextFn]_vars

\* ------------------------------------------------------------------------
\* Properties
\* ------------------------------------------------------------------------

\* Request r has been handled to its end.
Finished(r) == pc[r] = "done"

\* The processes that write a file: the ffmpeg runs of the handlers.
Writers == {p \in procs : p.via \in {"runFFmpeg", "overlay", "export"} /\ p.st = "running"}

\* The files request r has created.
FilesOf(r) == {p \in DOMAIN fsys : fsys[p].by = r}

\* C1: after any sequence of edit requests, every file that existed before
\* them is still there, as it was: no request deletes or overwrites it.
C1_SourcesPreserved ==
  \A p \in DOMAIN InitFiles : Exists(fsys, p) /\ fsys[p] = InitFiles[p]

\* C2: when a slow-motion or remove-segment request has finished, on
\* whatever path, the only file of its making that may be on the filesystem
\* is its final artifact: no stage output and no concat manifest remains.
C2_NoIntermediateLeft ==
  \A r \in Reqs :
    Finished(r) /\ body[r].op \in {"slow-motion", "remove-segment"}
      => \A p \in FilesOf(r) : p = loc[r].out

\* C3: a request that passed its handler's checks and met no fault of the
\* environment ends as it does alone, with a success: nothing another
\* request does to the shared source makes it fail.  (cut-video is left
\* out: its valid requests end in the exception of C8 alone as well.)
C3_SameOutcomeAsAlone ==
  \A r \in Reqs :
    Finished(r) /\ body[r].op # "cut" /\ ~hist[r].fault
      => /\ Len(resp[r]) = 1
         /\ resp[r][1].status \in {200, 400, 404}

\* C4: a path a request's process writes is fresh: it holds no file when
\* the process runs, and no process of another request writes it.
C4_FreshPaths ==
  \A p \in Writers :
    /\ ~Exists(fsys, p.out)
    /\ \A q \in Writers : q.out = p.out => q.req = p.req

\* The operations that run a pipeline of stages.
Pipelines == {"slow-motion", "remove-segment", "add-subtitles"}

\* The child processes of request r that run.
Running(r) ==
  {p \in procs : p.req = r /\ p.st = "running"
                   /\ p.via \in {"exec", "getDuration", "runFFmpeg", "overlay", "export"}}

\* Request r has been answered once, with status.
Answered(r, status) == Len(resp[r]) = 1 /\ resp[r][1].status = status

\* C5: in a pipeline, the step in which a stage fails or times out ends
\* the request with a failure answer and leaves no process of it behind, and
\* no step after it starts a process for the request: no later stage, no
\* concatenation and no burn-in is started.
C5_FailureAborts ==
  [][\A r \in Reqs :
       body'[r].op \in Pipelines /\ hist'[r].failed
         => /\ pc'[r] = "done"
            /\ Len(resp'[r]) = 1 /\ resp'[r][1].status = 500
            /\ \A p \in procs' : p.req # r
            /\ hist[r].failed => hist'[r].spawned = hist[r].spawned]_vars

\* A slow-motion request whose head stage failed while the middle, the
\* tail and the concatenation were still to come.
C5_Witness ==
  \E r \in Reqs :
    /\ body[r].op = "slow-motion" /\ hist[r].failed
    /\ hist[r].spawned = <<"probe", "head">>
    /\ Answered(r, 500)

\* The order in which the handler of op starts its processes.
DeclaredOrder(op) ==
  CASE op = "slow-motion" -> <<"probe", "head", "middle", "tail", "concat">>
    [] op = "remove-segment" -> <<"probe", "head", "tail", "concat">>
    [] op = "add-subtitles" -> <<"audio", "burn">>
    [] op = "add-overlay" -> <<"probe", "overlay">>
    [] op = "export" -> <<"export">>
    [] OTHER -> <<"probe">>

\* Whether the tags of s appear in s in the order they have in order.
InOrder(s, order) ==
  LET Pos(t) == CHOOSE i \in 1..Len(order) : order[i] = t
  IN /\ \A i \in 1..Len(s) : \E j \in 1..Len(order) : order[j] = s[i]
     /\ \A i \in 1..(Len(s) - 1) : Pos(s[i]) < Pos(s[i + 1])

\* C6: within one request the processes are started in the declared order,
\* and at most one process of the request runs at any time.
C6_StagesSequential ==
  \A r \in Reqs :
    /\ Cardinality(Running(r)) <= 1
    /\ InOrder(hist[r].spawned, DeclaredOrder(body[r].op))

\* The tail stage of a slow-motion request runs, after the probe, the head
\* and the middle.
C6_Witness ==
  \E p \in procs :
    /\ p.tag = "tail" /\ p.st = "running" /\ body[p.req].op = "slow-motion"
    /\ hist[p.req].spawned = <<"probe", "head", "middle", "tail">>

\* C7: every child process that runs has a timer armed that kills it.
C7_EveryProcessTimed ==
  \A r \in Reqs : \A p \in Running(r) : p.timed

\* C8: a request that has arrived and is not answered yet is still to be
\* answered: the server is up and a process of the request is pending whose
\* event resumes the handler.
C8_AnswerPending ==
  \A r \in Reqs :
    pc[r] # "idle" /\ resp[r] = <<>>
      => up /\ \E p \in procs : p.req = r

\* C9: the answer agrees with the filesystem: success is answered exactly
\* when the final artifact of the request was on disk, complete, at the time
\* of the answer.
C9_OutcomeAgrees ==
  \A r \in Reqs :
    \A i \in 1..Len(resp[r]) : (resp[r][i].status = 200) <=> resp[r][i].made

\* C10: a request rejected for a validation reason has spawned no process
\* and created no file.
C10_RejectedBeforeSpawn ==
  \A r \in Reqs :
    Len(resp[r]) > 0 /\ resp[r][1].status = 400
      => hist[r].spawned = <<>> /\ FilesOf(r) = {}

\* The endpoints that take an asset identifier.
AssetOps ==
  {"cut", "add-overlay", "slow-motion", "extract-audio", "add-subtitles",
   "remove-segment", "export"}

\* Request r has arrived at one of the endpoints ops.
Asked(r, ops) == body[r] # NoBody /\ body[r].op \in ops

\* C11: a request to an endpoint that takes an asset identifier, whose
\* identifier contains '..', '/' or '\', is rejected with a validation error
\* in the step in which it arrives: it has probed nothing and started no
\* process.
C11_UnsafeRejected ==
  \A r \in Reqs :
    Asked(r, AssetOps) /\ Unsafe(body[r].filename)
      => /\ Finished(r)
         /\ Answered(r, 400)
         /\ hist[r].spawned = <<>>
         /\ hist[r].probe = "none"

\* C12: a request with a well-formed identifier is answered not-found if
\* and only if no file of that name is in the uploads directory or in the
\* artifacts directory, and a handler that goes on reads the file the search
\* of the two directories gives.
C12_FoundInEitherArea ==
  \A r \in Reqs :
    Asked(r, AssetOps) /\ ~MissingStr(body[r].filename) /\ ~Unsafe(body[r].filename)
      => LET found == getVideoPath(InitFiles, body[r].filename) IN
         /\ Len(resp[r]) > 0 /\ resp[r][1].status = 404 => found = NoPath
         /\ found = NoPath => Finished(r) /\ Answered(r, 404)
         /\ loc[r].inputPath # NoPath => loc[r].inputPath = found

\* C13: a request whose duration probe has failed is over, answered once
\* with a server error, and the probe is the only process it ever started.
C13_ProbeFailureEnds ==
  \A r \in Reqs :
    hist[r].probe = "failed"
      => /\ Finished(r)
         /\ Answered(r, 500)
         /\ hist[r].spawned = <<"probe">>

\* The batch of actions the classifier returned to request r has been
\* validated.
Validated(r) == Asked(r, {"parse-prompt"}) /\ "actions" \in DOMAIN loc[r]

\* The places of the batch of request r whose tag is not supported.
Unsupported(r) ==
  {i \in 1..Len(loc[r].actions) : loc[r].actions[i] \notin supportedActions}

\* The answer that rejects tag.
Rejection(tag) == "The requested action '" \o tag \o "' is not currently supported."

\* C14: a batch with an action whose tag is not supported, at whatever
\* place, is rejected whole: the request is answered once, with a validation
\* error that names an unsupported tag of the batch, and no action is returned.
C14_BatchAllOrNothing ==
  \A r \in Reqs :
    Validated(r) /\ Unsupported(r) # {}
      => /\ Answered(r, 400)
         /\ resp[r][1].actions = <<>>
         /\ \E i \in Unsupported(r) : resp[r][1].message = Rejection(loc[r].actions[i])

\* A batch whose only unsupported tag is its last action, after supported
\* ones, has been rejected.
C14_Witness ==
  \E r \in Reqs :
    /\ Validated(r)
    /\ Len(loc[r].actions) = MaxBatch
    /\ Unsupported(r) = {MaxBatch}
    /\ Answered(r, 400)

\* The action catalog of the specification.
Catalog ==
  {"cut", "remove_segment", "add_overlay", "extract_audio", "slow_motion",
   "add_subtitles", "export", "undo", "redo"}

\* C15: a batch is accepted, and returned whole, exactly when every tag of
\* it is in the catalog.
C15_CatalogIsSupported ==
  \A r \in Reqs :
    Validated(r)
      => ((\A i \in 1..Len(loc[r].actions) : loc[r].actions[i] \in Catalog)
           <=> Answered(r, 200) /\ resp[r][1].actions = loc[r].actions)

\* Request r, to one of the endpoints ops, has resolved its times: the
\* locals of its handler hold them.
ResolvedTimes(r, ops, local) == Asked(r, ops) /\ local \in DOMAIN loc[r]

\* C16: a remove-segment request whose start resolves to 0 and whose end
\* resolves to the duration of the asset, as the handler formats it, is
\* rejected with 'Nothing left to keep. Aborting.': the probe is the only
\* process it ever started and it has created no file.
C16_WholeAssetRejected ==
  \A r \in Reqs :
    /\ ResolvedTimes(r, {"remove-segment"}, "parsedEnd")
    /\ hist[r].probe = "ok"
    /\ timeToSeconds(loc[r].parsedStart) = 0
    /\ timeToSeconds(loc[r].parsedEnd) = timeToSeconds(secondsToTime(loc[r].durationSec))
    => /\ Finished(r)
       /\ Answered(r, 400)
       /\ resp[r][1].message = "Nothing left to keep. Aborting."
       /\ hist[r].spawned = <<"probe">>
       /\ FilesOf(r) = {}

\* The endpoints that resolve time expressions.
TimeOps == {"cut", "slow-motion", "remove-segment"}

\* The handler of request r has probed the duration and resolved the times
\* of the request.
HasTimes(r) ==
  /\ Asked(r, TimeOps)
  /\ hist[r].probe = "ok"
  /\ DOMAIN loc[r] \cap {"resolvedEnd", "eHH", "parsedEnd"} # {}

\* The duration the handler of r probed and the start and end it resolved.
TimesOf(r) ==
  CASE body[r].op = "cut" ->
         [D |-> loc[r].videoDuration, start |-> loc[r].resolvedStart,
          end |-> loc[r].resolvedEnd]
    [] body[r].op = "slow-motion" ->
         [D |-> loc[r].fullDur, start |-> loc[r].sHH, end |-> loc[r].eHH]
    [] body[r].op = "remove-segment" ->
         [D |-> loc[r].durationSec, start |-> loc[r].parsedStart,
          end |-> loc[r].parsedEnd]

\* t is "end-" followed by a time HH:MM:SS.
EndRelative(t) ==
  /\ Len(t) > Len(StrEndMinus)
  /\ SubSeq(t, 1, Len(StrEndMinus)) = StrEndMinus
  /\ TimeRegexTest(SubSeq(t, Len(StrEndMinus) + 1, Len(t)))

\* The time an end-relative t stands for in a video of duration D: D less
\* the offset, and 0 when the offset is beyond D.
EndRelativeTime(t, D) ==
  LET left == D - timeToSeconds(SubSeq(t, Len(StrEndMinus) + 1, Len(t)))
  IN secondsToTime(IF left > 0 THEN left ELSE 0)

\* C17: in cut, slow-motion and remove-segment, an end written "end" is
\* resolved to the formatted duration, and a start or end written
\* "end-HH:MM:SS" to the duration less the offset, 00:00:00 when the offset
\* is beyond the duration.
C17_EndRelativeResolved ==
  \A r \in Reqs :
    HasTimes(r)
      => LET t == TimesOf(r) IN
         /\ body[r].end = StrEnd => t.end = secondsToTime(t.D)
         /\ EndRelative(body[r].end) => t.end = EndRelativeTime(body[r].end, t.D)
         /\ EndRelative(body[r].start) => t.start = EndRelativeTime(body[r].start, t.D)

\* A request whose start is further before the end than the video is long
\* has had its start resolved to 00:00:00.
C17_Witness ==
  \E r \in Reqs :
    /\ HasTimes(r)
    /\ EndRelative(body[r].start)
    /\ timeToSeconds(SubSeq(body[r].start, Len(StrEndMinus) + 1, Len(body[r].start)))
         > TimesOf(r).D
    /\ TimesOf(r).start = StrZero
    /\ body[r].end = StrEnd

\* C18: in cut, slow-motion and remove-segment, a start written "start" or
\* "beginning" is resolved to 00:00:00.
C18_StartFormsResolved ==
  \A r \in Reqs :
    HasTimes(r) /\ body[r].start \in {StrStart, StrBeginning}
      => TimesOf(r).start = StrZero

\* t is neither a symbolic form nor a time the pattern of the handlers
\* accepts.
Malformed(t) ==
  /\ t \notin {StrStart, StrBeginning, StrEnd}
  /\ ~EndRelative(t)
  /\ ~TimeRegexTest(t)

\* The messages of the invalid-time-format rejections.
InvalidTimeFormat ==
  {"Invalid time format. Use HH:MM:SS.",
   "Invalid time format. Use HH:MM:SS or end-relative format."}

\* C19: in cut, slow-motion and remove-segment, a request with a malformed
\* start or end, whose probe succeeded, is over and answered once with the
\* invalid-time-format error, and the probe is the only process it started.
C19_MalformedTimeRejected ==
  \A r \in Reqs :
    HasTimes(r) /\ (Malformed(body[r].start) \/ Malformed(body[r].end))
      => /\ Finished(r)
         /\ Answered(r, 400)
         /\ resp[r][1].message \in InvalidTimeFormat
         /\ hist[r].spawned = <<"probe">>

\* The end the handler of r passes to its transcode stages.
EndUsed(r) == IF body[r].op = "cut" THEN loc[r].to ELSE TimesOf(r).end

\* C20: in cut, slow-motion and remove-segment, a request whose resolved
\* start is before the duration and whose resolved end is beyond it is not
\* rejected, and the end its stages are given is the duration.
C20_EndClampedToDuration ==
  \A r \in Reqs :
    /\ HasTimes(r)
    /\ TimeRegexTest(TimesOf(r).start) /\ TimeRegexTest(TimesOf(r).end)
    /\ timeToSeconds(TimesOf(r).start) < TimesOf(r).D
    /\ timeToSeconds(TimesOf(r).end) > TimesOf(r).D
    => /\ ~(Len(resp[r]) > 0 /\ resp[r][1].status = 400)
       /\ "to" \in DOMAIN loc[r] \/ body[r].op # "cut"
       /\ EndUsed(r) = secondsToTime(TimesOf(r).D)

\* The handler of r resolved both times of the request to times of the
\* pattern, and the end is not after the start.
EndNotAfterStart(r) ==
  /\ HasTimes(r)
  /\ TimeRegexTest(TimesOf(r).start) /\ TimeRegexTest(TimesOf(r).end)
  /\ timeToSeconds(TimesOf(r).end) <= timeToSeconds(TimesOf(r).start)

\* C21: in cut, slow-motion and remove-segment, a request whose resolved end
\* is not after its resolved start is over, answered once with a validation
\* error, and the probe is the only process it started.
C21_EndAfterStart ==
  \A r \in Reqs :
    EndNotAfterStart(r)
      => /\ Finished(r)
         /\ Answered(r, 400)
         /\ hist[r].spawned = <<"probe">>

\* A slow-motion request whose resolved end equals its resolved start has
\* been rejected.
C21_Witness ==
  \E r \in Reqs :
    /\ EndNotAfterStart(r)
    /\ body[r].op = "slow-motion"
    /\ timeToSeconds(TimesOf(r).end) = timeToSeconds(TimesOf(r).start)
    /\ Answered(r, 400)

\* Function fn has been called for request r.
Called(r, fn) == pc[r] = "called" /\ loc[r].fn = fn

\* C22: the time resolveRelativeTime returns, for whatever expression and
\* duration, is at least 0 and at most the duration.
C22_ResolvedWithinDuration ==
  \A r \in Reqs :
    Called(r, "resolveRelativeTime")
      => /\ timeToSeconds(loc[r].returned) >= 0
         /\ timeToSeconds(loc[r].returned) <= loc[r].videoDuration

\* C23: a string the pattern of the handlers accepts, turned into seconds
\* and back, is the same string; a whole number of seconds of a day, turned
\* into a string and back, is the same number.
C23_RoundTrip ==
  \A r \in Reqs :
    /\ Called(r, "timeToSeconds") => loc[r].back = loc[r].time
    /\ Called(r, "secondsToTime") => loc[r].back = loc[r].seconds

\* The awaits of the three stages of the subtitle pipeline.
SubtitleStages == {"sub.audio", "sub.transcribe", "sub.burn"}

\* The subtitle pipeline of request r has failed in one of its stages, and
\* the request has been answered.
StageFailed(r) ==
  /\ Asked(r, {"add-subtitles"})
  /\ Finished(r)
  /\ "failedAt" \in DOMAIN loc[r]
  /\ loc[r].failedAt \in SubtitleStages
  /\ Len(resp[r]) > 0

\* What a caller reads in the failure answer of request r.
FailureRead(r) ==
  <<resp[r][1].status, resp[r][1].message, resp[r][1].error>>

\* C24: two subtitle requests that failed in different stages have been
\* given different failure answers.
C24_StageTold ==
  \A r1, r2 \in Reqs :
    StageFailed(r1) /\ StageFailed(r2) /\ loc[r1].failedAt # loc[r2].failedAt
      => FailureRead(r1) # FailureRead(r2)

\* C25: a subtitle request answered with a success has left neither its
\* audio file nor its subtitle track, and its burned-in output is there,
\* written to its end.
C25_SubtitleCleanup ==
  \A r \in Reqs :
    Asked(r, {"add-subtitles"}) /\ Finished(r) /\ Answered(r, 200)
      => /\ ~Exists(fsys, loc[r].audio)
         /\ ~Exists(fsys, loc[r].srt)
         /\ Exists(fsys, loc[r].out) /\ fsys[loc[r].out].full

\* A subtitle request has run its three stages and been answered with a
\* success.
C25_Witness ==
  \E r \in Reqs :
    /\ Asked(r, {"add-subtitles"})
    /\ Answered(r, 200)
    /\ hist[r].spawned = <<"audio", "burn">>
    /\ Exists(fsys, loc[r].out)

\* C26: "Add 'Subscribe Now' at the end in red top-right bold text" is
\* interpreted as the text "Subscribe Now", starting at END, for 3 seconds,
\* in red, at the top right, bold, in size 64.
C26_SubscribeNow ==
  \A r \in Reqs :
    Called(r, "parseOverlayPrompt") /\ loc[r].prompt = PromptSubscribe
      => loc[r].returned =
           [text |-> SubSeq(PromptSubscribe, 6, 18), start_time |-> END,
            duration |-> 3, color |-> "red", position |-> "top-right",
            bold |-> TRUE, fontsize |-> 64]

\* The prompt of C26 has been interpreted.
C26_Witness ==
  \E r \in Reqs :
    /\ Called(r, "parseOverlayPrompt")
    /\ loc[r].prompt = PromptSubscribe
    /\ loc[r].returned.start_time = END

\* The directional keywords, and the position each gives.
Directions == {WordTop, WordBottom, WordLeft, WordRight}

\* Word w is word, in lower case or not.
SameWord(w, word) ==
  /\ Len(w) = Len(word)
  /\ \A k \in 1..Len(word) : w[k] = word[k] \/ Lower(w[k]) = word[k]

\* The places in the words ws of the anchors: the words that are not bare
\* directional keywords.
Anchors(ws) ==
  {i \in 1..Len(ws) : \A d \in Directions : ~SameWord(ws[i], d)}

\* word is one of the words ws.
Said(ws, word) == \E i \in 1..Len(ws) : SameWord(ws[i], word)

\* The position the directional keywords among ws give: the last of top,
\* bottom, left, right that is said.
Directed(ws) ==
  IF Said(ws, WordRight) THEN "top-right"
  ELSE IF Said(ws, WordLeft) THEN "top-left"
  ELSE IF Said(ws, WordBottom) THEN "bottom-center"
  ELSE IF Said(ws, WordTop) THEN "top-center"
  ELSE "center"

\* The position an anchor names.
Named(word) ==
  CASE Len(word) = Len(PosWords[1]) -> "top-left"
    [] Len(word) = Len(PosWords[5]) -> "bottom-right"
    [] OTHER -> "center"

\* C30: a prompt without an anchor is given the position of the last of
\* top, bottom, left, right it says; a prompt with an anchor is given the
\* position its first anchor names, whatever directional keywords it says.
C30_LastDirectionWins ==
  \A r \in Reqs :
    (/\ Called(r, "parseOverlayPrompt")
     /\ "words" \in DOMAIN loc[r]
     /\ loc[r].prompt # PromptSubscribe)
      => LET ws == loc[r].words IN
         loc[r].returned.position =
           IF Anchors(ws) = {} THEN Directed(ws) ELSE Named(ws[Least(Anchors(ws))])

\* A prompt that says left, bottom and top, in this order, and no anchor
\* has been given top-left.
C30_Witness ==
  \E r \in Reqs :
    /\ Called(r, "parseOverlayPrompt")
    /\ "words" \in DOMAIN loc[r]
    /\ loc[r].words = <<WordLeft, WordBottom, WordTop>>
    /\ loc[r].returned.position = "top-left"


\* The requests whose handler has planned its stages from well-formed
\* resolved times.
Planned(r) ==
  /\ Asked(r, {"slow-motion", "remove-segment"})
  /\ HasTimes(r)
  /\ "cmds" \in DOMAIN loc[r]
  /\ TimeRegexTest(TimesOf(r).start)
  /\ TimeRegexTest(TimesOf(r).end)

\* The plan of r has a stage of this kind.
HasStage(r, tag) == \E i \in 1..Len(loc[r].cmds) : loc[r].cmds[i].tag = tag

Segmented(r) ==
  /\ Asked(r, {"slow-motion", "remove-segment"})
  /\ "cmds" \in DOMAIN loc[r]

\* The concat manifest of r is on the filesystem.
ManifestExists(r) == Exists(fsys, loc[r].listTxt)

\* The handler of r has written its manifest.
ManifestWritten(r) == "concatList" \in DOMAIN loc[r]

\* The place of a stage in the order head, middle, tail.
StageOrder(tag) == CASE tag = "head" -> 1 [] tag = "middle" -> 2 [] tag = "tail" -> 3

\* How many processes with this tag r has started.
Started(r, tag) ==
  Cardinality({i \in 1..Len(hist[r].spawned) : hist[r].spawned[i] = tag})

Phrased(r) == Called(r, "parseOverlayPrompt") /\ "phrases" \in DOMAIN loc[r]

\* The seconds an explicit time phrase names, minutes * 60 + seconds for
\* "at" or "minute", a blank, a number and, optionally, ':' and a number;
\* NaN for any other phrase.
ExplicitTime(ph) ==
  LET k == IF At(ph, 1, <<"a", "t", " ">>) THEN 4
           ELSE IF At(ph, 1, <<"m", "i", "n", "u", "t", "e", " ">>) THEN 8 ELSE 0
      e == RunEnd(ph, k, IsDigit)
  IN IF k = 0 \/ e < k THEN NaN
     ELSE IF e = Len(ph) THEN DigitsVal(SubSeq(ph, k, e)) * 60
     ELSE IF ph[e + 1] = ":" /\ e + 2 <= Len(ph) /\ RunEnd(ph, e + 2, IsDigit) = Len(ph)
       THEN DigitsVal(SubSeq(ph, k, e)) * 60 + DigitsVal(SubSeq(ph, e + 2, Len(ph)))
     ELSE NaN

\* The phrases for the end and for the start of the video.
EndPhrases ==
  {<<"a", "t", " ", "t", "h", "e", " ", "e", "n", "d">>,
   <<"a", "t", " ", "e", "n", "d", " ", "o", "f", " ", "t", "h", "e", " ", "v", "i", "d", "e", "o">>}

\* The places of the explicit times among the phrases ws.
Explicits(ws) == {i \in 1..Len(ws) : ExplicitTime(ws[i]) # NaN}

\* C31: the start time of the overlay is the time an explicit phrase "at" or
\* "minute" <number>[:<number>] names, minutes * 60 + seconds, whatever else
\* the prompt says; without such a phrase it is END when the prompt says
\* "at the end" or "at end of the video", and 0 otherwise.  END is
\* returned only for a prompt without an explicit time.
C31_StartPrecedence ==
  \A r \in Reqs :
    Phrased(r)
      => LET ws == loc[r].phrases
             start == loc[r].returned.start_time
         IN /\ start =
                 IF Explicits(ws) # {} THEN ExplicitTime(ws[Least(Explicits(ws))])
                 ELSE IF \E i \in 1..Len(ws) : ws[i] \in EndPhrases THEN END
                 ELSE 0
            /\ start = END => Explicits(ws) = {}


\* The named positions, the palette and the sizes of the size table.
Anchor7 ==
  {"top-left", "top-right", "top-center", "bottom-left", "bottom-right",
   "bottom-center", "center"}

Palette ==
  {"red", "blue", "green", "white", "black", "yellow", "purple", "orange",
   "pink", "gray"}

TableSizes == {24, 36, 48, 60, 80}

\* The word of a phrase "in <word>", lower-cased, or <<>> for another phrase.
InWord(ph) ==
  IF At(ph, 1, <<"i", "n", " ">>)
    THEN LowerStr(SubSeq(ph, 4, RunEnd(ph, 4, IsWordChar)))
    ELSE <<>>

\* The color the phrases ws ask for: that of the first "in <word>" when it
\* is of the palette, white otherwise.
AskedColor(ws) ==
  LET ins == {i \in 1..Len(ws) : InWord(ws[i]) # <<>>}
      word == IF ins = {} THEN <<>> ELSE InWord(ws[Least(ins)])
  IN IF word = <<"r", "e", "d">> THEN "red" ELSE "white"

\* The seconds of a phrase "for <number> seconds", or NaN.
ForSeconds(ph) ==
  LET e == RunEnd(ph, 5, IsDigit) IN
  IF At(ph, 1, <<"f", "o", "r", " ">>) /\ e >= 5
     /\ At(ph, e + 1, <<" ", "s", "e", "c", "o", "n", "d", "s">>)
    THEN DigitsVal(SubSeq(ph, 5, e))
    ELSE NaN

\* C32: whatever the prompt, the overlay interpreter returns a specification
\* with every field set to a legal value: a non-empty text, one of the seven
\* named positions, a color of the palette, a font size of 64 or of the size
\* table, a duration of 3 or of the number the prompt gives, a boolean for
\* bold and a start of END or at least 0; the color is white when the word
\* after the first "in" is not of the palette, and that color when it is.
C32_LegalOverlay ==
  \A r \in Reqs :
    Called(r, "parseOverlayPrompt")
      => LET o == loc[r].returned IN
         /\ DOMAIN o = {"text", "start_time", "duration", "color", "position",
                        "bold", "fontsize"}
         /\ o.text # <<>>
         /\ o.position \in Anchor7
         /\ o.color \in Palette
         /\ o.fontsize \in {64} \cup TableSizes
         /\ o.duration \in Nat
         /\ o.bold \in BOOLEAN
         /\ o.start_time = END \/ o.start_time >= 0
         /\ Phrased(r) =>
              LET ws == loc[r].phrases
                  fors == {i \in 1..Len(ws) : ForSeconds(ws[i]) # NaN}
              IN /\ o.color = AskedColor(ws)
                 /\ o.duration = IF fors = {} THEN 3 ELSE ForSeconds(ws[Least(fors)])

\* A prompt that says "in Teal" and then "in red" has been given white.
C32_Witness ==
  \E r \in Reqs :
    /\ Phrased(r)
    /\ loc[r].phrases = <<<<"i", "n", " ", "T", "e", "a", "l">>, <<"i", "n", " ", "r", "e", "d">>>>
    /\ loc[r].returned.color = "white"


\* The requests to add-overlay whose handler has built its filter.
Filtered(r) == Asked(r, {"add-overlay"}) /\ "drawtext" \in DOMAIN loc[r]

\* C33: in add-overlay a start of END is replaced by
\* floor(probed duration - overlay duration) before the filter is built:
\* the filter never holds END, and it shows the text from its start to its
\* start plus the overlay's duration.
C33_EndResolvedInFilter ==
  \A r \in Reqs :
    Filtered(r)
      => LET o == parseOverlayPrompt(body[r].prompt)
             d == loc[r].drawtext
         IN /\ d.start # END
            /\ d.end # END
            /\ d.end = d.start + o.duration
            /\ o.start_time # END => d.start = o.start_time
            /\ o.start_time = END =>
                 /\ "durationSeconds" \in DOMAIN loc[r]
                 /\ 2 * d.start <= loc[r].durationSeconds - 2 * o.duration
                 /\ 2 * (d.start + 1) > loc[r].durationSeconds - 2 * o.duration

\* An overlay of 5 seconds at the end of the 4-second file has been given
\* the window from -1 to 4.
C33_Witness ==
  \E r \in Reqs :
    /\ Filtered(r)
    /\ body[r].prompt = PromptEndFor5
    /\ loc[r].durationSeconds = 8
    /\ loc[r].drawtext.start = 0 - 1
    /\ loc[r].drawtext.end = 4


\* Speed sp, in hundredths, is a number from 0.1 to 5.
SpeedInRange(sp) == sp # NaN /\ sp >= 10 /\ sp <= 500

\* C34: a slow-motion request whose speed is not a number from 0.1 to 5
\* starts no transcode stage and, once its file is probed, is over, answered
\* with a validation error; a request whose speed is in that range and whose
\* resolved times are a valid range is not rejected: its stages are planned.
C34_SpeedValidated ==
  \A r \in Reqs :
    Asked(r, {"slow-motion"})
      => /\ (~SpeedInRange(body[r].speed))
              => /\ \A i \in 1..Len(hist[r].spawned) : hist[r].spawned[i] = "probe"
                 /\ (hist[r].probe = "ok") => (Finished(r) /\ Answered(r, 400))
         /\ (/\ SpeedInRange(body[r].speed)
             /\ HasTimes(r)
             /\ Lt(timeToSeconds(TimesOf(r).start), timeToSeconds(TimesOf(r).end))
             /\ Le(timeToSeconds(TimesOf(r).end), TimesOf(r).D))
            => "cmds" \in DOMAIN loc[r]


\* C35: a request is answered at most once, whatever the events of its
\* processes: 'error' and then 'close', the kill of the timer and then
\* 'close', a non-zero exit.
C35_AnsweredOnce ==
  \A r \in Reqs : Len(resp[r]) <= 1


\* The handler of the cut request r has built the arguments of its ffmpeg.
CutRanged(r) == Asked(r, {"cut"}) /\ "to" \in DOMAIN loc[r]

====
